---- MODULE Spec2Model ----
(***************************************************************************)
(* RedClient: the Subscriber of src/RedClient/PubSub.py on top of the      *)
(* Connection of src/RedClient/RESP/connection.py.                          *)
(*                                                                         *)
(* The program is asyncio code: one event loop runs the coroutines, and a  *)
(* coroutine gives up control only at an await that really suspends.  One  *)
(* action of this model is one run of a coroutine from a suspension point  *)
(* to the next one:                                                        *)
(*   - `await q.put(x)` suspends only when q is full (asyncio.Queue.put);  *)
(*   - `async with self._lock` suspends only when the lock is held or has  *)
(*     waiters (asyncio.Lock.acquire);                                     *)
(*   - `await self._conn.send(arr)` writes the bytes at once               *)
(*     (writer.write) and then awaits writer.drain(), which suspends when  *)
(*     the transport's write buffer is above its high-water mark and       *)
(*     returns at once otherwise: both outcomes are modelled;              *)
(*   - `await self._conn.receive()` suspends until a frame is buffered.    *)
(* Connection.disconnect() (writer.close(), await writer.wait_closed(),     *)
(* handles cleared) is taken as part of the step that calls it.            *)
(* The Redis server and the consumers that read the queues are the         *)
(* environment.  Tasks, channel names and queues are interchangeable, so   *)
(* the calls use them in order of first use (FirstIdle, InOrder).          *)
(*                                                                         *)
(* The specifications:                                                    *)
(*   Spec      the Subscriber with a server that answers each command and  *)
(*             publishes messages, the Connection seen as open, at end of  *)
(*             stream or disconnected (`conn`);                            *)
(*   SpecPush  the same with fewer calls and a server that may also send   *)
(*             any value at all;                                           *)
(*   SpecConn  the Connection alone at the level of bytes: receive, with   *)
(*             and without timeout, on a stream whose bytes arrive one at  *)
(*             a time, that the peer may close at any moment and that may  *)
(*             be lost with an error;                                      *)
(*   SpecUse   the same Connection with its other methods: send,           *)
(*             disconnect and setStream, called with arguments of any      *)
(*             type;                                                       *)
(*   SpecArgs  the Subscriber with fewer calls, its subscribe and          *)
(*             unsubscribe called with arguments of any type, and send     *)
(*             and setStream called with arguments they reject;            *)
(*   SpecPub   the Publisher of PubSub.py: concurrent publish calls, with  *)
(*             and without timeout, a server whose replies may be of any   *)
(*             kind, end of stream and a connection lost with an error.    *)
(***************************************************************************)
EXTENDS Integers, Sequences, FiniteSets, TLC

\* ---------------------------------------------------------------- bounds
NumChannels == 2
NumConsumers == 2
NumTasks == 2
QueueCap == 1
MaxCalls == 4
MaxMsgs == 1
PushCalls == 3
MaxFrames == 2
MaxReceives == 3
MaxOps == 2
ArgCalls == 3
ArgOps == 1
NumPubTasks == 3
MaxPubs == 4

Channels == 1..NumChannels
Consumers == 1..NumConsumers
Tasks == 1..NumTasks
\* The deliverers that can wait on a full queue: the caller tasks and the
\* receive loop.
Loop == NumTasks + 1

VARIABLES
    pending,      \* Subscriber._pending: channel -> list of queues
    subscribed,   \* Subscriber._subscribed: channel -> list of queues
    locked,       \* Subscriber._lock: held (or handed to a woken waiter)
    lockWaiters,  \* Subscriber._lock: the waiting acquirers, first come first
    conn,         \* Connection reader/writer: "open", "eof", "closing",
                  \* "reset", "none"
    written,      \* every command written to the stream, in order
    srvRead,      \* how many written commands the server has processed
    srvSubs,      \* the channels the server holds a subscription for
    pushed,       \* every push the server has sent, in order
    loopRead,     \* how many pushes run_forever has received
    msgs,         \* how many messages have been published
    loop,         \* run_forever: position and locals
    task,         \* the caller tasks: position and locals of the current call
    delivered,    \* per queue: every event ever put on it, in order
    taken,        \* per queue: how many events the consumer has got
    putters,      \* per queue: asyncio.Queue._putters, the blocked deliverers
    calls         \* every subscribe/unsubscribe call started, in order, with
                  \* the state the call found its channel in

\* The Connection of RESP/connection.py at the level of bytes.  The
\* Subscriber's steps above see it only through `conn`; these variables are
\* the state of the specification of the Connection itself (SpecConn).
VARIABLES
    reader,       \* Connection.reader: "None" or "stream"
    writer,       \* Connection.writer: "None" or "stream"
    wire,         \* the bytes the peer has still to send, in order
    buffer,       \* StreamReader._buffer: the bytes fed and not yet read
    eof,          \* StreamReader._eof: end of stream was fed
    rxPos,        \* how many bytes the reads have taken from the stream
    call,         \* the receive call in progress: position and locals
    results,      \* the outcome of every receive call that ended, in order
    frames,       \* what the peer puts on the stream, frame by frame
    exc,          \* the error the connection was lost with: "None" or its name
    sent,         \* the bytes written to the writer, in order
    ops           \* the outcome of every send, disconnect and setStream call

\* The Publisher of PubSub.py (SpecPub), which has a Connection and a lock of
\* its own.
VARIABLES
    pubTask,      \* the tasks that call publish: position and locals
    pubLocked,    \* Publisher._lock: held (or handed to a woken waiter)
    pubWaiters,   \* Publisher._lock: the waiting acquirers, first come first
    pubConn,      \* Publisher._conn: "open", "eof", "reset", "none"
    pubWritten,   \* every PUBLISH command written, in order
    pubSrv,       \* how many commands the server has answered
    pubReplies,   \* every reply the server has sent, in order
    pubRead,      \* how many replies receive has read
    pubCalls,     \* how many publish calls were started
    pubLog        \* the outcome of every publish call that ended, in order

\* The variables of the Subscriber, of the Connection and of the Publisher.
svars == <<pending, subscribed, locked, lockWaiters, conn, written, srvRead,
           srvSubs, pushed, loopRead, msgs, loop, task, delivered, taken,
           putters, calls>>

cvars == <<reader, writer, wire, buffer, eof, rxPos, call, results, frames,
           exc, sent, ops>>

pvars == <<pubTask, pubLocked, pubWaiters, pubConn, pubWritten, pubSrv,
           pubReplies, pubRead, pubCalls, pubLog>>

vars == <<svars, cvars, pvars>>

\* ------------------------------------------------------------ the events
QSubscribed(ch) == [type |-> "QSubscribed", channel |-> ch]

QMessage(ch, d) == [type |-> "QMessage", channel |-> ch, data |-> d]

QUnsubscribed(ch) == [type |-> "QUnsubscribed", channel |-> ch]

\* dict[key] = value
Assign(map, k, v) == [c \in DOMAIN map \cup {k} |-> IF c = k THEN v ELSE map[c]]

\* dict.pop(key): the dict that is left
Pop(map, k) == [c \in DOMAIN map \ {k} |-> map[c]]

\* list.remove(x): the list without the first occurrence of x
RECURSIVE Remove(_, _)
Remove(list, x) ==
    IF list = <<>> THEN <<>>
    ELSE IF Head(list) = x THEN Tail(list)
    ELSE <<Head(list)>> \o Remove(Tail(list), x)

\* A membership test that finds every queue in every list.
InAny(x, list) == TRUE

\* x in list
In(x, list) == \E i \in 1..Len(list) : list[i] = x

\* A queue that takes one event more than its capacity before it is full.
FullLate(dl, q) == Len(dl[q]) - taken[q] > QueueCap

\* asyncio.Queue.full() of queue q, with `dl` the events put so far
Full(dl, q) == Len(dl[q]) - taken[q] >= QueueCap

\* Connection.connected(): both handles set, the reader not at end of stream
\* (StreamReader.at_eof() is true once EOF was fed AND the buffer is empty),
\* the writer not closing.
Connected ==
    \/ conn = "open"
    \/ conn = "eof" /\ loopRead < Len(pushed)

\* The lifecycle state of a channel, p and s being the pending and the
\* subscribed map: the tests of lines 260, 264, 333, 357, 377 and 413.
StateOf(p, s, ch) ==
    IF ch \in DOMAIN p /\ ch \in DOMAIN s THEN "Both"
    ELSE IF ch \in DOMAIN p THEN "Pending"
    ELSE IF ch \in DOMAIN s THEN "Subscribed"
    ELSE "Unsubscribed"

\* ------------------------------------------------------------------ Init
IdleTask == [pc |-> "idle", op |-> "none", ch |-> 1, q |-> 1, err |-> "none"]

IdleLoop == [pc |-> "recv", kind |-> "none", ch |-> 1, data |-> 0, q |-> 1,
             idx |-> 0, ch_q |-> <<>>, err |-> "none"]

\* The receive call record when no call is in progress.
IdleCall == [pc |-> "idle", timeout |-> FALSE, start |-> 0, need |-> 0,
             stack |-> <<>>, was |-> FALSE]

\* A Connection just constructed (connection.py 50-56), no peer.
NoConnection ==
    /\ reader = "None"
    /\ writer = "None"
    /\ wire = <<>>
    /\ buffer = <<>>
    /\ eof = FALSE
    /\ rxPos = 0
    /\ call = IdleCall
    /\ results = <<>>
    /\ frames = <<>>
    /\ exc = "None"
    /\ sent = <<>>
    /\ ops = <<>>

\* The tasks that call publish, and the record of one that is in no call.
PubTasks == 1..NumPubTasks

PubIdle == [pc |-> "idle", id |-> 0, timeout |-> FALSE]

\* A Publisher just constructed (PubSub.py 51-63) and connected (66-84).
NoPublisher ==
    /\ pubTask = [t \in PubTasks |-> PubIdle]
    /\ pubLocked = FALSE
    /\ pubWaiters = <<>>
    /\ pubConn = "open"
    /\ pubWritten = <<>>
    /\ pubSrv = 0
    /\ pubReplies = <<>>
    /\ pubRead = 0
    /\ pubCalls = 0
    /\ pubLog = <<>>

\* A Subscriber just constructed on a connected Connection (PubSub.py
\* 204-213).
InitSubscriber ==
    /\ pending = <<>>
    /\ subscribed = <<>>
    /\ locked = FALSE
    /\ lockWaiters = <<>>
    /\ conn = "open"
    /\ written = <<>>
    /\ srvRead = 0
    /\ srvSubs = {}
    /\ pushed = <<>>
    /\ loopRead = 0
    /\ msgs = 0
    /\ loop = IdleLoop
    /\ task = [t \in Tasks |-> IdleTask]
    /\ delivered = [q \in Consumers |-> <<>>]
    /\ taken = [q \in Consumers |-> 0]
    /\ putters = [q \in Consumers |-> <<>>]
    /\ calls = <<>>

Init == InitSubscriber /\ NoConnection /\ NoPublisher

\* ------------------------------------------------------- the caller side
\* The record of a task whose call has returned (err = "none") or raised.
Returned(e) == [IdleTask EXCEPT !.err = e]

\* The caller tasks are interchangeable coroutines: a new call is started by
\* the first task that is not inside a call.
FirstIdle(t) ==
    /\ task[t].pc = "idle"
    /\ \A u \in Tasks : u < t => task[u].pc # "idle"

\* Channel names and queues are interchangeable too: the calls name them in
\* order of first use (channel c only once channel c - 1 has been named,
\* and likewise the queues).
InOrder(ch, q) ==
    /\ ch > 1 => \E i \in 1..Len(calls) : calls[i].ch = ch - 1
    /\ q > 1 => \E i \in 1..Len(calls) : calls[i].q = q - 1

\* The event a call puts on its queue (lines 266 and 422).
EventOf(me) ==
    IF me.op = "subscribe" THEN QSubscribed(me.ch) ELSE QUnsubscribed(me.ch)

\* `await q.put(ev)` by task t, whose record after the step is `me`.
PutBy(t, me, ev) ==
    IF Full(delivered, me.q)
    THEN /\ putters' = [putters EXCEPT ![me.q] = Append(@, t)]
         /\ task' = [task EXCEPT ![t] = [me EXCEPT !.pc = "put_wait"]]
         /\ UNCHANGED delivered
    ELSE /\ delivered' = [delivered EXCEPT ![me.q] = Append(@, ev)]
         /\ task' = [task EXCEPT ![t] = Returned("none")]
         /\ UNCHANGED putters

\* Leaving `async with self._lock` with the task records `tk`: Lock.release()
\* wakes the first waiter, which then owns the lock (a later acquirer queues
\* behind the waiters, so nobody can take the lock in between).
Release(tk) ==
    IF lockWaiters = <<>>
    THEN /\ locked' = FALSE
         /\ lockWaiters' = <<>>
         /\ task' = tk
    ELSE /\ locked' = TRUE
         /\ lockWaiters' = Tail(lockWaiters)
         /\ task' = [tk EXCEPT ![Head(lockWaiters)].pc = "locked"]

\* The rest of the `async with` body once the send has returned: subscribe
\* creates the pending entry (line 280), unsubscribe does nothing more.
Finish(t, me) ==
    /\ pending' = IF me.op = "subscribe"
                  THEN Assign(pending, me.ch, <<me.q>>)
                  ELSE pending
    /\ Release([task EXCEPT ![t] = Returned("none")])

\* A body whose error exits leave the lock held (an acquire() whose
\* release() the exception skips).
SendKeepsLock(t, me) ==
    IF ~Connected
    THEN /\ conn' = IF conn = "reset" THEN conn ELSE "none"
         /\ UNCHANGED <<written, pending, lockWaiters>>
         /\ locked' = TRUE
         /\ task' = [task EXCEPT ![t] = Returned("ConnectionClosedError")]
    ELSE /\ written' = Append(written,
                [cmd |-> IF me.op = "subscribe" THEN "SUBSCRIBE"
                         ELSE "UNSUBSCRIBE",
                 ch |-> me.ch])
         /\ UNCHANGED conn
         /\ \/ Finish(t, me)
            \/ /\ locked' = TRUE
               /\ task' = [task EXCEPT ![t] = [me EXCEPT !.pc = "drain"]]
               /\ UNCHANGED <<pending, lockWaiters>>

\* The body of `async with self._lock` up to its first suspension, the lock
\* being held by t: Connection.send (lines 123-128) and what follows it.
Send(t, me) ==
    IF conn \in {"closing", "reset"}
    THEN \* the disconnect() of send raises the error the connection was
         \* lost with (connection.py 124, 283), which no except clause of
         \* subscribe and unsubscribe names.
         /\ UNCHANGED <<conn, written, pending>>
         /\ Release([task EXCEPT ![t] = Returned("ConnectionResetError")])
    ELSE IF ~Connected
    THEN \* send disconnects and raises ConnectionClosedError; subscribe
         \* re-raises its own error (275-278), unsubscribe evaluates
         \* self.conn, an attribute that does not exist (433).
         /\ conn' = "none"
         /\ UNCHANGED <<written, pending>>
         /\ Release([task EXCEPT ![t] =
                Returned(IF me.op = "subscribe" THEN "ConnectionClosedError"
                         ELSE "AttributeError")])
    ELSE /\ written' = Append(written,
                [cmd |-> IF me.op = "subscribe" THEN "SUBSCRIBE"
                         ELSE "UNSUBSCRIBE",
                 ch |-> me.ch])
         /\ UNCHANGED conn
         /\ \/ Finish(t, me)                       \* drain returns at once
            \/ /\ locked' = TRUE                    \* drain suspends
               /\ task' = [task EXCEPT ![t] = [me EXCEPT !.pc = "drain"]]
               /\ UNCHANGED <<pending, lockWaiters>>

\* `async with self._lock:` entered by task t.
WithLock(t, me) ==
    IF ~locked /\ lockWaiters = <<>>
    THEN Send(t, me)
    ELSE /\ lockWaiters' = Append(lockWaiters, t)
         /\ task' = [task EXCEPT ![t] = [me EXCEPT !.pc = "lock_wait"]]
         /\ UNCHANGED <<locked, written, pending, conn>>

\* Subscriber.subscribe(channel, q), from the call to its first suspension.
Subscribe(t, ch, q) ==
    /\ FirstIdle(t)
    /\ InOrder(ch, q)
    /\ Len(calls) < MaxCalls
    /\ calls' = Append(calls, [op |-> "subscribe", ch |-> ch, q |-> q,
                               st |-> StateOf(pending, subscribed, ch)])
    /\ LET me == [pc |-> "call", op |-> "subscribe", ch |-> ch, q |-> q,
                  err |-> "none"]
       IN IF ch \in DOMAIN pending
          THEN /\ pending' = [pending EXCEPT ![ch] = Append(@, q)]
               /\ task' = [task EXCEPT ![t] = Returned("none")]
               /\ UNCHANGED <<subscribed, delivered, putters, locked,
                              lockWaiters, written, conn>>
          ELSE IF ch \in DOMAIN subscribed
          THEN /\ subscribed' = [subscribed EXCEPT ![ch] = Append(@, q)]
               /\ PutBy(t, me, QSubscribed(ch))
               /\ UNCHANGED <<pending, locked, lockWaiters, written, conn>>
          ELSE /\ WithLock(t, me)
               /\ UNCHANGED <<subscribed, delivered, putters>>
    /\ UNCHANGED <<srvRead, srvSubs, pushed, loopRead, msgs, loop, taken>>
    /\ UNCHANGED <<cvars, pvars>>

\* Subscriber.unsubscribe(channel, q), from the call to its first suspension.
Unsubscribe(t, ch, q) ==
    /\ FirstIdle(t)
    /\ InOrder(ch, q)
    /\ Len(calls) < MaxCalls
    /\ calls' = Append(calls, [op |-> "unsubscribe", ch |-> ch, q |-> q,
                               st |-> StateOf(pending, subscribed, ch)])
    /\ LET me == [pc |-> "call", op |-> "unsubscribe", ch |-> ch, q |-> q,
                  err |-> "none"]
       IN IF ch \notin DOMAIN subscribed
          THEN /\ task' = [task EXCEPT ![t] = Returned("none")]
               /\ UNCHANGED <<pending, subscribed, delivered, putters, locked,
                              lockWaiters, written, conn>>
          ELSE IF ~In(q, subscribed[ch])
          THEN /\ task' = [task EXCEPT ![t] = Returned("none")]
               /\ UNCHANGED <<pending, subscribed, delivered, putters, locked,
                              lockWaiters, written, conn>>
          ELSE IF Len(subscribed[ch]) > 1
          THEN /\ subscribed' = [subscribed EXCEPT ![ch] = Remove(@, q)]
               /\ PutBy(t, me, QUnsubscribed(ch))
               /\ UNCHANGED <<pending, locked, lockWaiters, written, conn>>
          ELSE /\ WithLock(t, me)
               /\ UNCHANGED <<subscribed, delivered, putters>>
    /\ UNCHANGED <<srvRead, srvSubs, pushed, loopRead, msgs, loop, taken>>
    /\ UNCHANGED <<cvars, pvars>>

\* A task that waited for the lock has been given it and runs the body.
TaskSend(t) ==
    /\ task[t].pc = "locked"
    /\ Send(t, task[t])
    /\ UNCHANGED <<subscribed, delivered, putters, srvRead, srvSubs, pushed,
                   loopRead, msgs, loop, taken, calls>>
    /\ UNCHANGED <<cvars, pvars>>

\* writer.drain() returns to a task that was suspended in it.
TaskDrained(t) ==
    /\ task[t].pc = "drain"
    /\ Finish(t, task[t])
    /\ UNCHANGED <<subscribed, delivered, putters, written, conn, srvRead,
                   srvSubs, pushed, loopRead, msgs, loop, taken, calls>>
    /\ UNCHANGED <<cvars, pvars>>

\* A task woken from a full queue tries its put again (the `while
\* self.full()` of asyncio.Queue.put).
TaskRetry(t) ==
    /\ task[t].pc = "put_ready"
    /\ PutBy(t, task[t], EventOf(task[t]))
    /\ UNCHANGED <<pending, subscribed, locked, lockWaiters, conn, written,
                   srvRead, srvSubs, pushed, loopRead, msgs, loop, taken,
                   calls>>
    /\ UNCHANGED <<cvars, pvars>>

\* ----------------------------------------------------- the receive loop
\* The `for q in <list>: await q.put(ev)` of run_forever, run from iterator
\* position i until a put suspends or the list is exhausted.  A Python list
\* iterator holds the list and an index: each step takes list[index] if
\* index < len(list), as the list is at that moment.
RECURSIVE Deliver(_, _, _, _)
Deliver(list, i, dl, ev) ==
    IF i >= Len(list)
    THEN [dl |-> dl, idx |-> i, wait |-> {}]
    ELSE LET q == list[i + 1]
         IN IF Full(dl, q)
            THEN [dl |-> dl, idx |-> i + 1, wait |-> {q}]
            ELSE Deliver(list, i + 1, [dl EXCEPT ![q] = Append(@, ev)], ev)

\* The event the loop delivers for the push it is dispatching.
LoopEvent(kind, ch, data) ==
    IF kind = "subscribe" THEN QSubscribed(ch)
    ELSE IF kind = "message" THEN QMessage(ch, data)
    ELSE QUnsubscribed(ch)

\* The list the loop's `for` iterates.  For a subscribe push it is ch_q, the
\* very list object stored in _subscribed[channel] at line 339; for a message
\* push it is _subscribed[channel] (361): in both cases the object a
\* concurrent subscribe appends to and a concurrent unsubscribe removes
\* from.  For an unsubscribe push it is the popped list (381), which no one
\* else can reach.
LoopList(lp, sub) ==
    IF lp.kind = "unsubscribe" THEN lp.ch_q ELSE sub[lp.ch]

\* Run the for loop of `lp` on from position i, the events put so far
\* being dl and the subscribed map being sub.  When the list is exhausted
\* the loop calls receive again (297), which on a Connection that a failed
\* send has disconnected meanwhile evaluates self.reader.readuntil with
\* self.reader None (connection.py 159): AttributeError, which run_forever
\* does not catch.
Iterate(lp, i, dl, sub) ==
    LET r == Deliver(LoopList(lp, sub), i, dl,
                     LoopEvent(lp.kind, lp.ch, lp.data))
    IN /\ delivered' = r.dl
       /\ IF r.wait = {}
          THEN /\ loop' = IF conn = "none"
                          THEN [IdleLoop EXCEPT !.pc = "done",
                                                !.err = "AttributeError"]
                          ELSE IdleLoop
               /\ UNCHANGED putters
          ELSE \E q \in r.wait :
               /\ loop' = [lp EXCEPT !.pc = "put_wait", !.q = q,
                                     !.idx = r.idx]
               /\ putters' = [putters EXCEPT ![q] = Append(@, Loop)]

\* The value the server sends for a push: an Array of three elements, the
\* kind as a BulkString, the channel as a BulkString of ASCII bytes, and the
\* subscription count (an Integer) or the payload (a BulkString).  A value
\* of another shape has shape "NotArray", "ArrayOfTwo" or "HeadNotBulk"; a
\* channel field is "BulkString", "NonAscii" (a BulkString that does not
\* decode) or "Integer".
Push(kind, ch, data) ==
    [shape |-> "Array3", kind |-> kind, ch |-> ch, data |-> data,
     f2 |-> "BulkString",
     f3 |-> IF kind = "message" THEN "BulkString" ELSE "Integer"]

\* The bytes of the push are a RESP object: receive returns a value for
\* them.  For a push of shape "Unparsable" (a header line that does not end
\* in CRLF, a length or an Integer that is no number, a SimpleString that
\* does not decode) receive raises ParsingError.
Parses(p) == p.shape # "Unparsable"

\* The tests of lines 308-318: an Array, of length 3, ret[0] a BulkString.
IsArray3(p) == p.shape = "Array3"

PushKinds == {"subscribe", "message", "unsubscribe"}

\* The tests on ret[1] and ret[2] in the branch of the push's kind (323,
\* 347, 367) and the decoding of the channel name (327-331, 351-355,
\* 371-375).
WellTyped(p) ==
    /\ p.f2 = "BulkString"
    /\ p.f3 = (IF p.kind = "message" THEN "BulkString" ELSE "Integer")

\* Every error exit of run_forever: disconnect, then raise.  On a transport
\* that was closed with an error, disconnect() raises that error from
\* wait_closed() (connection.py 282) and the raise is not reached.
Fatal(e) ==
    /\ conn' = IF conn = "closing" THEN "reset" ELSE "none"
    /\ loop' = [IdleLoop EXCEPT !.pc = "done",
                                !.err = IF conn = "closing"
                                        THEN "ConnectionResetError" ELSE e]
    /\ UNCHANGED <<pending, subscribed, delivered, putters>>

\* The Connection after a run of the loop that did not end it: a transport
\* closed with an error has reported the error to the reader by the time
\* the loop, suspended on a queue or on an empty buffer, runs again.
AfterRun(lp, read) ==
    IF conn = "closing" /\ ~(lp.pc = "recv" /\ read < Len(pushed))
    THEN "reset" ELSE conn

\* run_forever receives one push and dispatches it (lines 297-388), up to
\* the first put that suspends.
LoopReceive ==
    /\ loop.pc = "recv"
    /\ conn \notin {"none", "reset"}
    /\ loopRead < Len(pushed)
    /\ loopRead' = loopRead + 1
    /\ LET p == pushed[loopRead + 1]
           lp == [IdleLoop EXCEPT !.kind = p.kind, !.ch = p.ch,
                                  !.data = p.data]
       IN IF ~Parses(p)
          THEN Fatal("ParsingError")
          ELSE IF ~IsArray3(p)
          THEN Fatal("UnexpectedResponseError")
          ELSE IF p.kind = "subscribe"
          THEN IF ~WellTyped(p) \/ p.ch \notin DOMAIN pending
               THEN Fatal("UnexpectedResponseError")
               ELSE LET sub == Assign(subscribed, p.ch, pending[p.ch])
                    IN /\ pending' = Pop(pending, p.ch)
                       /\ subscribed' = sub
                       /\ Iterate(lp, 0, delivered, sub)
                       /\ conn' = AfterRun(loop', loopRead + 1)
          ELSE IF p.kind = "message"
          THEN IF ~WellTyped(p) \/ p.ch \notin DOMAIN subscribed
               THEN Fatal("UnexpectedResponseError")
               ELSE /\ Iterate(lp, 0, delivered, subscribed)
                    /\ conn' = AfterRun(loop', loopRead + 1)
                    /\ UNCHANGED <<pending, subscribed>>
          ELSE IF p.kind = "unsubscribe"
          THEN IF ~WellTyped(p) \/ p.ch \notin DOMAIN subscribed
               THEN Fatal("UnexpectedResponseError")
               ELSE /\ subscribed' = Pop(subscribed, p.ch)
                    /\ Iterate([lp EXCEPT !.ch_q = subscribed[p.ch]], 0,
                               delivered, subscribed)
                    /\ conn' = AfterRun(loop', loopRead + 1)
                    /\ UNCHANGED pending
          ELSE Fatal("UnexpectedResponseError")
    /\ UNCHANGED <<locked, lockWaiters, written, srvRead, srvSubs, pushed,
                   msgs, task, taken, calls>>
    /\ UNCHANGED <<cvars, pvars>>

\* The loop, woken from a full queue, tries its put again and goes on with
\* the for loop.
LoopRetry ==
    /\ loop.pc = "put_ready"
    /\ IF Full(delivered, loop.q)
       THEN /\ putters' = [putters EXCEPT ![loop.q] = Append(@, Loop)]
            /\ loop' = [loop EXCEPT !.pc = "put_wait"]
            /\ UNCHANGED delivered
       ELSE Iterate(loop, loop.idx,
                    [delivered EXCEPT ![loop.q] =
                        Append(@, LoopEvent(loop.kind, loop.ch, loop.data))],
                    subscribed)
    /\ UNCHANGED <<pending, subscribed, locked, lockWaiters, conn, written,
                   srvRead, srvSubs, pushed, loopRead, msgs, task, taken,
                   calls>>
    /\ UNCHANGED <<cvars, pvars>>

\* receive() fails: the stream ended with nothing buffered, or the
\* Connection was disconnected by a failed send (lines 299-301).
LoopClosed ==
    /\ loop.pc = "recv"
    /\ \/ conn = "none"
       \/ conn = "eof" /\ loopRead = Len(pushed)
    /\ Fatal("ConnectionClosedError")
    /\ UNCHANGED <<locked, lockWaiters, written, srvRead, srvSubs, pushed,
                   loopRead, msgs, task, taken, calls>>
    /\ UNCHANGED <<cvars, pvars>>

\* receive() raises the error the connection was lost with, which
\* run_forever does not catch (299-305): the loop ends without a
\* disconnect.
LoopReset ==
    /\ loop.pc = "recv"
    /\ conn = "reset"
    /\ loop' = [IdleLoop EXCEPT !.pc = "done", !.err = "ConnectionResetError"]
    /\ UNCHANGED <<pending, subscribed, locked, lockWaiters, conn, written,
                   srvRead, srvSubs, pushed, loopRead, msgs, task, delivered,
                   taken, putters, calls>>
    /\ UNCHANGED <<cvars, pvars>>

\* ------------------------------------------------------- the environment
\* The deliverer d is woken from a queue's _putters.
Woken(d) ==
    IF d = Loop
    THEN /\ loop' = [loop EXCEPT !.pc = "put_ready"]
         /\ UNCHANGED task
    ELSE /\ task' = [task EXCEPT ![d].pc = "put_ready"]
         /\ UNCHANGED loop

\* The consumer of queue q gets one event (asyncio.Queue.get): the first
\* blocked putter, if any, is woken.
Get(q) ==
    /\ taken[q] < Len(delivered[q])
    /\ taken' = [taken EXCEPT ![q] = @ + 1]
    /\ IF putters[q] = <<>>
       THEN UNCHANGED <<putters, loop, task>>
       ELSE /\ putters' = [putters EXCEPT ![q] = Tail(@)]
            /\ Woken(Head(putters[q]))
    /\ UNCHANGED <<pending, subscribed, locked, lockWaiters, conn, written,
                   srvRead, srvSubs, pushed, loopRead, msgs, delivered, calls>>
    /\ UNCHANGED <<cvars, pvars>>

\* The server processes the next command and pushes its acknowledgement:
\* one subscribe push per SUBSCRIBE, one unsubscribe push per UNSUBSCRIBE.
ServerStep ==
    /\ conn = "open"
    /\ srvRead < Len(written)
    /\ srvRead' = srvRead + 1
    /\ LET c == written[srvRead + 1]
           subs == IF c.cmd = "SUBSCRIBE" THEN srvSubs \cup {c.ch}
                   ELSE srvSubs \ {c.ch}
       IN /\ srvSubs' = subs
          /\ pushed' = Append(pushed,
                Push(IF c.cmd = "SUBSCRIBE" THEN "subscribe"
                     ELSE "unsubscribe", c.ch, Cardinality(subs)))
    /\ UNCHANGED <<pending, subscribed, locked, lockWaiters, conn, written,
                   loopRead, msgs, loop, task, delivered, taken, putters,
                   calls>>
    /\ UNCHANGED <<cvars, pvars>>

\* A message is published on a channel the server holds a subscription for.
ServerPublish(ch) ==
    /\ conn = "open"
    /\ ch \in srvSubs
    /\ msgs < MaxMsgs
    /\ msgs' = msgs + 1
    /\ pushed' = Append(pushed, Push("message", ch, msgs + 1))
    /\ UNCHANGED <<pending, subscribed, locked, lockWaiters, conn, written,
                   srvRead, srvSubs, loopRead, loop, task, delivered, taken,
                   putters, calls>>
    /\ UNCHANGED <<cvars, pvars>>

\* The peer closes the stream: the reader is fed EOF.
ConnectionLost ==
    /\ conn = "open"
    /\ conn' = "eof"
    /\ UNCHANGED <<pending, subscribed, locked, lockWaiters, written, srvRead,
                   srvSubs, pushed, loopRead, msgs, loop, task, delivered,
                   taken, putters, calls>>
    /\ UNCHANGED <<cvars, pvars>>

\* The connection is lost with an error (the peer resets it): the transport
\* closes, so that connected() is false with both handles set
\* ("closing"), and then reports the error to the reader, which raises it
\* from then on ("reset").  A receive that a push has already woken runs
\* in between and still reads what is buffered.
ConnectionReset ==
    /\ conn = "open"
    /\ conn' = IF loop.pc = "recv" /\ loopRead < Len(pushed)
               THEN "closing" ELSE "reset"
    /\ UNCHANGED <<pending, subscribed, locked, lockWaiters, written, srvRead,
                   srvSubs, pushed, loopRead, msgs, loop, task, delivered,
                   taken, putters, calls>>
    /\ UNCHANGED <<cvars, pvars>>

\* ------------------------------------------------------ the specification
Next ==
    \/ \E t \in Tasks, ch \in Channels, q \in Consumers : Subscribe(t, ch, q)
    \/ \E t \in Tasks, ch \in Channels, q \in Consumers : Unsubscribe(t, ch, q)
    \/ \E t \in Tasks : TaskSend(t)
    \/ \E t \in Tasks : TaskDrained(t)
    \/ \E t \in Tasks : TaskRetry(t)
    \/ LoopReceive
    \/ LoopRetry
    \/ LoopClosed
    \/ LoopReset
    \/ \E q \in Consumers : Get(q)
    \/ ServerStep
    \/ \E ch \in Channels : ServerPublish(ch)
    \/ ConnectionLost
    \/ ConnectionReset

Spec == Init /\ [][Next]_vars

\* ------------------------------------- a server that sends anything at all
\* The values a receive loop must reject whatever the state of the maps:
\* the values that are no Array of three with a BulkString first (though
\* they spell `subscribe` where the kind would be), the Array of three with
\* an unknown kind, and for each kind the pushes with a second or third
\* field of the wrong type.
Malformed ==
    {[Push("subscribe", 1, 0) EXCEPT !.shape = sh] :
        sh \in {"NotArray", "ArrayOfTwo", "HeadNotBulk"}}
    \cup {Push("other", 1, 0)}
    \cup {[Push(k, 1, 0) EXCEPT !.f2 = t] :
            k \in PushKinds, t \in {"Integer", "NonAscii"}}
    \cup {[Push(k, 1, 0) EXCEPT !.f3 = IF k = "message" THEN "Integer"
                                       ELSE "BulkString"] : k \in PushKinds}

\* The well-formed pushes, of any kind and for any channel, whatever the
\* commands the server has read.
Unsolicited == {Push(k, ch, 0) : k \in PushKinds, ch \in Channels}

\* Bytes that are no RESP object.
Garbled == {[Push("subscribe", 1, 0) EXCEPT !.shape = "Unparsable"]}

\* The server sends a value no command and no publication accounts for.
ServerUnexpected(p) ==
    /\ conn = "open"
    /\ msgs < MaxMsgs
    /\ msgs' = msgs + 1
    /\ pushed' = Append(pushed, p)
    /\ UNCHANGED <<pending, subscribed, locked, lockWaiters, conn, written,
                   srvRead, srvSubs, loopRead, loop, task, delivered, taken,
                   putters, calls>>
    /\ UNCHANGED <<cvars, pvars>>

\* The Subscriber, with at most PushCalls calls, on a connection to such a
\* server.
NextPush ==
    \/ /\ Len(calls) < PushCalls
       /\ \E t \in Tasks, ch \in Channels, q \in Consumers :
             Subscribe(t, ch, q) \/ Unsubscribe(t, ch, q)
    \/ \E t \in Tasks : TaskSend(t) \/ TaskDrained(t) \/ TaskRetry(t)
    \/ LoopReceive
    \/ LoopRetry
    \/ LoopClosed
    \/ LoopReset
    \/ \E q \in Consumers : Get(q)
    \/ ServerStep
    \/ \E ch \in Channels : ServerPublish(ch)
    \/ \E p \in Malformed \cup Unsolicited \cup Garbled : ServerUnexpected(p)
    \/ ConnectionLost
    \/ ConnectionReset

SpecPush == Init /\ [][NextPush]_vars

\* ===================================== the Connection, at the level of bytes
\* A byte is a one-character string; HiByte stands for a byte above 0x7f.
CR == "\r"
LF == "\n"
CRLF == <<CR, LF>>
HiByte == "~"

Digits == <<"0", "1", "2", "3", "4", "5", "6", "7", "8", "9">>

IsDigit(b) == \E n \in 1..10 : Digits[n] = b

DigitValue(b) == (CHOOSE n \in 1..10 : Digits[n] = b) - 1

\* str(n).encode() of a non-negative n
RECURSIVE Decimal(_)
Decimal(n) ==
    IF n < 10 THEN <<Digits[n + 1]>>
    ELSE Append(Decimal(n \div 10), Digits[(n % 10) + 1])

\* A str() that drops the sign.
StrUnsigned(n) == IF n < 0 THEN Decimal(-n) ELSE Decimal(n)

\* str(n).encode()
Str(n) == IF n < 0 THEN <<"-">> \o Decimal(-n) ELSE Decimal(n)

\* ------------------------------------------------------------ the Values
\* A RESP object: its class, and the field of that class (_value as a number
\* or as bytes, _message, _items).
Value(t, n, b, items) == [type |-> t, num |-> n, bytes |-> b, items |-> items]

SimpleString(b) == Value("SimpleString", 0, b, <<>>)

Error(b) == Value("Error", 0, b, <<>>)

Integer(n) == Value("Integer", n, <<>>, <<>>)

BulkString(b) == Value("BulkString", 0, b, <<>>)

Null == Value("Null", 0, <<>>, <<>>)

Array(items) == Value("Array", 0, <<>>, items)

\* Python's None, which is no RESP object.
None == Value("None", 0, <<>>, <<>>)

\* serialize() of each class.
RECURSIVE Serialize(_)
RECURSIVE SerializeAll(_)
Serialize(v) ==
    IF v.type = "SimpleString" THEN <<"+">> \o v.bytes \o CRLF
    ELSE IF v.type = "Error" THEN <<"-">> \o v.bytes \o CRLF
    ELSE IF v.type = "Integer" THEN <<":">> \o Str(v.num) \o CRLF
    ELSE IF v.type = "BulkString"
    THEN <<"$">> \o Str(Len(v.bytes)) \o CRLF \o v.bytes \o CRLF
    ELSE IF v.type = "Null" THEN <<"$", "-", "1">> \o CRLF
    ELSE <<"*">> \o Str(Len(v.items)) \o CRLF \o SerializeAll(v.items)

\* The encodings of a sequence of Values, one after the other.
SerializeAll(vs) ==
    IF vs = <<>> THEN <<>> ELSE Serialize(Head(vs)) \o SerializeAll(Tail(vs))

\* ------------------------------------------------------------- int(bytes)
\* The bytes Python's int() strips from both ends.
Whitespace == {" ", "\t", LF, CR, "\f"}

RECURSIVE LStrip(_)
LStrip(b) ==
    IF b # <<>> /\ Head(b) \in Whitespace THEN LStrip(Tail(b)) ELSE b

RECURSIVE RStrip(_)
RStrip(b) ==
    IF b # <<>> /\ b[Len(b)] \in Whitespace
    THEN RStrip(SubSeq(b, 1, Len(b) - 1)) ELSE b

\* The digits of a decimal literal: not empty, digits, and single
\* underscores each between two digits.
IsLiteral(d) ==
    /\ d # <<>>
    /\ \A i \in 1..Len(d) :
          \/ IsDigit(d[i])
          \/ /\ d[i] = "_"
             /\ 1 < i /\ i < Len(d)
             /\ IsDigit(d[i - 1]) /\ IsDigit(d[i + 1])

RECURSIVE LiteralValue(_, _)
LiteralValue(d, acc) ==
    IF d = <<>> THEN acc
    ELSE IF Head(d) = "_" THEN LiteralValue(Tail(d), acc)
    ELSE LiteralValue(Tail(d), 10 * acc + DigitValue(Head(d)))

\* An int() that takes no sign.
IntOfUnsigned(b) ==
    LET s == RStrip(LStrip(b))
    IN IF IsLiteral(s) THEN [ok |-> TRUE, val |-> LiteralValue(s, 0)]
       ELSE [ok |-> FALSE, val |-> 0]

\* int(b) as Integer(line[1:]) computes it (datastructures.py 80): ok is
\* FALSE where int() raises ValueError.
IntOf(b) ==
    LET s == RStrip(LStrip(b))
        signed == s # <<>> /\ Head(s) \in {"+", "-"}
        d == IF signed THEN Tail(s) ELSE s
    IN IF IsLiteral(d)
       THEN [ok |-> TRUE,
             val |-> IF signed /\ Head(s) = "-" THEN 0 - LiteralValue(d, 0)
                     ELSE LiteralValue(d, 0)]
       ELSE [ok |-> FALSE, val |-> 0]

\* bytes.decode('ascii') succeeds.
IsAscii(b) == \A i \in 1..Len(b) : b[i] # HiByte

\* ---------------------------------------------------------------- receive
\* How far a receive call gets on the bytes at hand: it waits for a line
\* ("line") or for a bulk body ("body"), returns val ("return") or raises
\* err ("raise"); buf is what is left in the reader's buffer, pos the
\* number of bytes read from the stream, stack the Arrays being filled,
\* outermost first (the recursion of line 238).
Outcome(kind, buf, pos, stack, need, val, err) ==
    [kind |-> kind, buf |-> buf, pos |-> pos, stack |-> stack, need |-> need,
     val |-> val, err |-> err]

Raise(e, buf, pos) == Outcome("raise", buf, pos, <<>>, 0, None, e)

\* StreamReader.readuntil and readexactly at end of stream: the buffer is
\* cleared and IncompleteReadError raised, which receive turns into
\* disconnect() and ConnectionClosedError (243-245).
Incomplete(buf, pos) == Raise("ConnectionClosedError", <<>>, pos + Len(buf))

\* The index of the first LF of buf, 0 if there is none.
FirstLF(buf) ==
    IF \E i \in 1..Len(buf) : buf[i] = LF
    THEN CHOOSE i \in 1..Len(buf) :
            buf[i] = LF /\ \A j \in 1..(i - 1) : buf[j] # LF
    ELSE 0

RECURSIVE ReadLine(_, _, _, _)
RECURSIVE ReadBody(_, _, _, _, _)
RECURSIVE Complete(_, _, _, _, _)

\* One (nested) receive call has the value v to return (v is None where the
\* code falls through to the bare return of line 247).  At the top the call
\* returns it; inside an Array it is appended (239), which raises the
\* built-in ValueError for None (datastructures.py 148-149), and the Array
\* is returned once it has arraySize items.
Complete(v, buf, pos, stack, isEof) ==
    IF stack = <<>> THEN Outcome("return", buf, pos, <<>>, 0, v, "none")
    ELSE IF v = None THEN Raise("ValueError", buf, pos)
    ELSE LET n == Len(stack)
             items == Append(stack[n].items, v)
         IN IF Len(items) = stack[n].size
            THEN Complete(Array(items), buf, pos, SubSeq(stack, 1, n - 1),
                          isEof)
            ELSE ReadLine(buf, pos, [stack EXCEPT ![n].items = items], isEof)

\* A receive that reads the bytes of the bulk string and leaves the CRLF
\* that ends it in the stream.
ReadBodyOnly(buf, pos, stack, need, isEof) ==
    IF Len(buf) < need - 2
    THEN IF isEof THEN Incomplete(buf, pos)
         ELSE Outcome("body", buf, pos, stack, need, None, "none")
    ELSE Complete(BulkString(SubSeq(buf, 1, need - 2)),
                  SubSeq(buf, need - 1, Len(buf)), pos + need - 2, stack,
                  isEof)

\* readexactly(stringLength + 2) and what follows it (207-219).
ReadBody(buf, pos, stack, need, isEof) ==
    IF Len(buf) < need
    THEN IF isEof THEN Incomplete(buf, pos)
         ELSE Outcome("body", buf, pos, stack, need, None, "none")
    ELSE LET bulk == SubSeq(buf, 1, need)
             rest == SubSeq(buf, need + 1, Len(buf))
         IN IF bulk[need - 1] # CR \/ bulk[need] # LF
            THEN Raise("ParsingError", rest, pos + need)
            ELSE Complete(BulkString(SubSeq(bulk, 1, need - 2)), rest,
                          pos + need, stack, isEof)

\* readuntil(b'\n') and the parsing of the line (152-241).
ReadLine(buf, pos, stack, isEof) ==
    LET k == FirstLF(buf)
        rest == SubSeq(buf, k + 1, Len(buf))
        line == SubSeq(buf, 1, k - 2)
        n == IntOf(Tail(line))
    IN IF k = 0
       THEN IF isEof THEN Incomplete(buf, pos)
            ELSE Outcome("line", buf, pos, stack, 0, None, "none")
       ELSE IF k = 1 THEN Raise("IndexError", rest, pos + k)
       ELSE IF buf[k - 1] # CR THEN Raise("ParsingError", rest, pos + k)
       ELSE IF line = <<>> THEN Complete(None, rest, pos + k, stack, isEof)
       ELSE IF Head(line) = "+"
       THEN IF IsAscii(Tail(line))
            THEN Complete(SimpleString(Tail(line)), rest, pos + k, stack,
                          isEof)
            ELSE Raise("ParsingError", rest, pos + k)
       ELSE IF Head(line) = "-"
       THEN IF IsAscii(Tail(line))
            THEN Complete(Error(Tail(line)), rest, pos + k, stack, isEof)
            ELSE Raise("ParsingError", rest, pos + k)
       ELSE IF Head(line) = ":"
       THEN IF n.ok
            THEN Complete(Integer(n.val), rest, pos + k, stack, isEof)
            ELSE Raise("ParsingError", rest, pos + k)
       ELSE IF Head(line) = "$"
       THEN IF ~n.ok \/ n.val < -1 THEN Raise("ParsingError", rest, pos + k)
            ELSE IF n.val = -1
            THEN Complete(Null, rest, pos + k, stack, isEof)
            ELSE ReadBody(rest, pos + k, stack, n.val + 2, isEof)
       ELSE IF Head(line) = "*"
       THEN IF ~n.ok \/ n.val < -1 THEN Raise("ParsingError", rest, pos + k)
            ELSE IF n.val = -1
            THEN Complete(Null, rest, pos + k, stack, isEof)
            ELSE IF n.val = 0
            THEN Complete(Array(<<>>), rest, pos + k, stack, isEof)
            ELSE ReadLine(rest, pos + k,
                          Append(stack, [size |-> n.val, items |-> <<>>]),
                          isEof)
       ELSE Complete(None, rest, pos + k, stack, isEof)

\* ------------------------------------------------- the Connection's steps
\* Connection.connected() (251-270): both handles are set, the reader is
\* not at end of stream (EOF fed and the buffer empty) and the writer's
\* transport is not closing.  The transport of a writer that is set closes
\* when the connection is lost with an error.
IsConnected ==
    /\ reader # "None"
    /\ writer # "None"
    /\ ~(eof /\ buffer = <<>>)
    /\ exc = "None"

\* The record of a call that ended: what it raised or returned, the stream
\* position at its start and at its end.
Result(c, e, v, pos) ==
    [err |-> e, val |-> v, timeout |-> c.timeout, start |-> c.start,
     end |-> pos, was |-> c.was]

\* A receive that calls disconnect() before it raises any error, as it does
\* for ConnectionClosedError.
AdvanceClosing(out, c) ==
    /\ buffer' = out.buf
    /\ rxPos' = out.pos
    /\ IF out.kind \in {"line", "body"}
       THEN /\ call' = [c EXCEPT !.pc = out.kind, !.need = out.need,
                                 !.stack = out.stack]
            /\ UNCHANGED <<results, reader, writer>>
       ELSE /\ call' = IdleCall
            /\ results' = Append(results, Result(c, out.err, out.val, out.pos))
            /\ IF out.err # "none"
               THEN reader' = "None" /\ writer' = "None"
               ELSE UNCHANGED <<reader, writer>>

\* The call c has got as far as `out`: it waits on, or it ends; an end by
\* ConnectionClosedError has called disconnect() (244, 274-286).
Advance(out, c) ==
    /\ buffer' = out.buf
    /\ rxPos' = out.pos
    /\ IF out.kind \in {"line", "body"}
       THEN /\ call' = [c EXCEPT !.pc = out.kind, !.need = out.need,
                                 !.stack = out.stack]
            /\ UNCHANGED <<results, reader, writer>>
       ELSE /\ call' = IdleCall
            /\ results' = Append(results, Result(c, out.err, out.val, out.pos))
            /\ IF out.err = "ConnectionClosedError"
               THEN reader' = "None" /\ writer' = "None"
               ELSE UNCHANGED <<reader, writer>>

\* The stream of the model has not been opened yet.
Fresh == reader = "None" /\ results = <<>> /\ ~eof /\ exc = "None"

\* connect() (59-79): the handles are set.
Connect ==
    /\ Fresh
    /\ call.pc = "idle"
    /\ reader' = "stream"
    /\ writer' = "stream"
    /\ UNCHANGED <<wire, buffer, eof, rxPos, call, results, frames, exc, sent,
                   ops>>
    /\ UNCHANGED <<svars, pvars>>

\* receive(timeout) is called (134-247), with a timeout or without one, and
\* runs up to its first wait.  On a Connection without a reader,
\* self.reader.readuntil raises AttributeError; on a reader whose
\* connection was lost with an error, readuntil raises that error, which
\* no except clause of receive names.
Receive(timeout) ==
    /\ call.pc = "idle"
    /\ Len(results) < MaxReceives
    /\ LET c == [IdleCall EXCEPT !.timeout = timeout, !.start = rxPos,
                                 !.was = IsConnected]
       IN IF reader = "None"
          THEN /\ results' = Append(results,
                                Result(c, "AttributeError", None, rxPos))
               /\ UNCHANGED <<reader, writer, buffer, rxPos, call>>
          ELSE IF exc # "None" THEN Advance(Raise(exc, buffer, rxPos), c)
          ELSE Advance(ReadLine(buffer, rxPos, <<>>, eof), c)
    /\ UNCHANGED <<wire, eof, frames, exc, sent, ops>>
    /\ UNCHANGED <<svars, pvars>>

\* What the waiting call finds when it is woken: the error the connection
\* was lost with, or the bytes fed meanwhile.
Woke ==
    IF exc # "None" THEN Raise(exc, buffer, rxPos)
    ELSE IF call.pc = "line" THEN ReadLine(buffer, rxPos, call.stack, eof)
    ELSE ReadBody(buffer, rxPos, call.stack, call.need, eof)

\* The waiting call is woken with the line or the body it waits for in the
\* buffer, or at end of stream, and runs up to its next wait.
Resume ==
    /\ call.pc \in {"line", "body"}
    /\ Woke.kind \notin {"line", "body"} \/ Woke.pos # rxPos
    /\ Advance(Woke, call)
    /\ UNCHANGED <<wire, eof, frames, exc, sent, ops>>
    /\ UNCHANGED <<svars, pvars>>

\* A receive that treats the timeout as it treats the end of the stream:
\* disconnect() before it raises.
TimeoutDisconnects ==
    /\ call.pc \in {"line", "body"}
    /\ call.timeout
    /\ call' = IdleCall
    /\ results' = Append(results, Result(call, "TimeoutError", None, rxPos))
    /\ reader' = "None"
    /\ writer' = "None"
    /\ UNCHANGED <<wire, buffer, eof, rxPos, frames, exc, sent, ops>>
    /\ UNCHANGED <<svars, pvars>>

\* The timeout of asyncio.wait_for elapses on the read the call waits in
\* (152-156, 207-211): the read is cancelled, having taken nothing, and the
\* call raises TimeoutError.
Timeout ==
    /\ call.pc \in {"line", "body"}
    /\ call.timeout
    /\ call' = IdleCall
    /\ results' = Append(results, Result(call, "TimeoutError", None, rxPos))
    /\ UNCHANGED <<reader, writer, wire, buffer, eof, rxPos, frames, exc, sent,
                   ops>>
    /\ UNCHANGED <<svars, pvars>>

\* The next byte of the peer arrives and is fed to the reader.
Arrive ==
    /\ reader = "stream"
    /\ ~eof
    /\ exc = "None"
    /\ wire # <<>>
    /\ buffer' = Append(buffer, Head(wire))
    /\ wire' = Tail(wire)
    /\ UNCHANGED <<reader, writer, eof, rxPos, call, results, frames, exc,
                   sent, ops>>
    /\ UNCHANGED <<svars, pvars>>

\* The peer closes the stream, whatever it had still to send: the reader is
\* fed EOF.
PeerCloses ==
    /\ reader = "stream"
    /\ ~eof
    /\ exc = "None"
    /\ eof' = TRUE
    /\ wire' = <<>>
    /\ UNCHANGED <<reader, writer, buffer, rxPos, call, results, frames, exc,
                   sent, ops>>
    /\ UNCHANGED <<svars, pvars>>

\* The connection is lost with an error (the peer resets it): the transport
\* closes, the reader holds the error (StreamReader.set_exception) and the
\* read a call waits in raises it.  A call already woken by bytes or by the
\* end of the stream runs first.
ReadError ==
    /\ reader = "stream"
    /\ exc = "None"
    /\ call.pc \in {"line", "body"} => (Woke.kind = call.pc /\ Woke.pos = rxPos)
    /\ exc' = "ConnectionResetError"
    /\ wire' = <<>>
    /\ UNCHANGED <<reader, writer, buffer, eof, rxPos, call, results, frames,
                   sent, ops>>
    /\ UNCHANGED <<svars, pvars>>

\* The Values the peer sends.
Sendable ==
    {SimpleString(<<"O", "K">>), SimpleString(<<>>), Error(<<"E">>),
     Integer(12), Integer(-3), Null, BulkString(<<>>), BulkString(<<"a">>), BulkString(<<CR, LF>>),
     Array(<<>>), Array(<<BulkString(<<"a">>), Integer(12)>>),
     Array(<<Array(<<Null>>)>>)}

\* Bytes on the stream that no serialize() produces.
Raw(b) == Value("Raw", 0, b, <<>>)

\* What a peer that does not keep to the protocol sends: a line of LF alone,
\* a line without CR, an empty line, an unknown tag, a number that is none,
\* lengths below -1, the nil Array, a byte that is not ASCII, a bulk body
\* without its CRLF, and the header of an Array whose element is the frame
\* that follows.
RawFrames ==
    {Raw(<<LF>>), Raw(<<"+", "O", LF>>), Raw(CRLF), Raw(<<"?">> \o CRLF),
     Raw(<<":", "x">> \o CRLF), Raw(<<"$", "-", "2">> \o CRLF),
     Raw(<<"*", "-", "2">> \o CRLF), Raw(<<"*", "-", "1">> \o CRLF),
     Raw(<<"+", HiByte>> \o CRLF), Raw(<<"$", "1">> \o CRLF \o <<"a", "b", LF>>),
     Raw(<<"*", "1">> \o CRLF)}

\* The bytes of the frames fs, one after the other.
RECURSIVE WireOf(_)
WireOf(fs) ==
    IF fs = <<>> THEN <<>>
    ELSE (IF Head(fs).type = "Raw" THEN Head(fs).bytes
          ELSE Serialize(Head(fs))) \o WireOf(Tail(fs))

\* A Connection just constructed, and a peer that will send at most
\* MaxFrames frames.
InitConn ==
    /\ InitSubscriber
    /\ NoPublisher
    /\ reader = "None"
    /\ writer = "None"
    /\ frames \in UNION {[1..n -> Sendable \cup RawFrames] : n \in 1..MaxFrames}
    /\ wire = WireOf(frames)
    /\ buffer = <<>>
    /\ eof = FALSE
    /\ rxPos = 0
    /\ call = IdleCall
    /\ results = <<>>
    /\ exc = "None"
    /\ sent = <<>>
    /\ ops = <<>>

NextConn ==
    \/ Connect
    \/ \E timeout \in BOOLEAN : Receive(timeout)
    \/ Resume
    \/ Timeout
    \/ Arrive
    \/ PeerCloses
    \/ ReadError

SpecConn == InitConn /\ [][NextConn]_vars

\* ------------------------------------- send, disconnect and setStream
\* The record of a call of send, disconnect or setStream that ended: its
\* arguments (the class of obj, or what reader and writer are), what it
\* raised, and what connected() returned when it was made.
Op(name, a1, a2, e) ==
    [op |-> name, a1 |-> a1, a2 |-> a2, err |-> e, was |-> IsConnected]

\* isinstance(obj, RESPLike) (120).
IsRESPLike(obj) ==
    obj.type \in {"SimpleString", "Error", "Integer", "BulkString", "Null",
                  "Array"}

\* What disconnect() raises (274-286): wait_closed() of a writer whose
\* connection was lost with an error raises that error.
DisconnectRaises == IF writer # "None" THEN exc ELSE "None"

\* disconnect() (274-286): a writer that is set is closed, which ends the
\* stream, and waited for; then both handles are cleared, unless the wait
\* has raised.
Disconnected ==
    IF writer = "None"
    THEN reader' = "None" /\ UNCHANGED <<writer, eof, wire>>
    ELSE IF exc # "None"
    THEN UNCHANGED <<reader, writer, eof, wire>>
    ELSE reader' = "None" /\ writer' = "None" /\ eof' = TRUE /\ wire' = <<>>

\* disconnect() called by the user of the Connection, between two receive
\* calls.
Disconnect ==
    /\ call.pc = "idle"
    /\ Len(ops) < MaxOps
    /\ Disconnected
    /\ ops' = Append(ops, Op("disconnect", "", "",
                             IF DisconnectRaises = "None" THEN "none"
                             ELSE DisconnectRaises))
    /\ UNCHANGED <<buffer, rxPos, call, results, frames, exc, sent>>
    /\ UNCHANGED <<svars, pvars>>

\* send(obj) (107-130); drain() returns once the bytes are handed over.
SendValue(obj) ==
    /\ Len(ops) < MaxOps
    /\ IF ~IsRESPLike(obj)
       THEN /\ ops' = Append(ops, Op("send", obj.type, "", "ValueError"))
            /\ UNCHANGED <<reader, writer, eof, wire, sent>>
       ELSE IF ~IsConnected
       THEN /\ Disconnected
            /\ ops' = Append(ops, Op("send", obj.type, "",
                                     IF DisconnectRaises = "None"
                                     THEN "ConnectionClosedError"
                                     ELSE DisconnectRaises))
            /\ UNCHANGED sent
       ELSE /\ sent' = sent \o Serialize(obj)
            /\ ops' = Append(ops, Op("send", obj.type, "", "none"))
            /\ UNCHANGED <<reader, writer, eof, wire>>
    /\ UNCHANGED <<buffer, rxPos, call, results, frames, exc>>
    /\ UNCHANGED <<svars, pvars>>

\* isinstance(reader, asyncio.StreamReader) and isinstance(writer,
\* asyncio.StreamWriter) (97).
IsStream(x) == x = "stream"

\* setStream(r, w) (82-103), with the stream of the model or with other
\* objects.
SetStream(r, w) ==
    /\ call.pc = "idle"
    /\ Len(ops) < MaxOps
    /\ IF ~IsStream(r) \/ ~IsStream(w)
       THEN /\ ops' = Append(ops, Op("setStream", r, w, "ValueError"))
            /\ UNCHANGED <<reader, writer>>
       ELSE /\ Fresh
            /\ reader' = r
            /\ writer' = w
            /\ ops' = Append(ops, Op("setStream", r, w, "none"))
    /\ UNCHANGED <<wire, buffer, eof, rxPos, call, results, frames, exc, sent>>
    /\ UNCHANGED <<svars, pvars>>

\* What send is called with: Values, and an object that is none.
SendArgs == {Integer(12), None}

\* What setStream is called with: a stream's reader or writer, or another
\* object.
StreamArgs == {"stream", "object"}

\* The Values the peer of SpecUse sends.
Replies == {Integer(12), BulkString(<<"a">>)}

\* A Connection just constructed, and a peer that will send one Value.
InitUse ==
    /\ InitConn
    /\ Len(frames) = 1
    /\ frames[1] \in Replies

NextUse ==
    \/ NextConn
    \/ \E obj \in SendArgs : SendValue(obj)
    \/ Disconnect
    \/ \E r \in StreamArgs, w \in StreamArgs : SetStream(r, w)

SpecUse == InitUse /\ [][NextUse]_vars

\* ----------------------------------------- calls with arguments of any type
\* A channel argument that is no str, a q argument that is no asyncio.Queue.
NotAStr == 0
NotAQueue == 0

\* A subscribe or unsubscribe that takes any object for a queue.
IsQueueAny(q) == TRUE

\* isinstance(q, asyncio.Queue) (257, 410).
IsQueue(q) == q \in Consumers

\* isinstance(channel, str) (254, 407).
IsStr(ch) == ch \in Channels

\* subscribe(channel, q) or unsubscribe(channel, q) called by task t with
\* arguments of any type: self.ValueError is raised for a channel that is no
\* str and for a q that is no queue before anything else is done (254-258,
\* 407-411).
Call(t, op, ch, q) ==
    IF IsStr(ch) /\ IsQueue(q)
    THEN IF op = "subscribe" THEN Subscribe(t, ch, q)
         ELSE Unsubscribe(t, ch, q)
    ELSE /\ FirstIdle(t)
         /\ Len(calls) < MaxCalls
         /\ calls' = Append(calls, [op |-> op, ch |-> ch, q |-> q,
                                    st |-> StateOf(pending, subscribed, ch)])
         /\ task' = [task EXCEPT ![t] = Returned("ValueError")]
         /\ UNCHANGED <<pending, subscribed, locked, lockWaiters, conn,
                        written, srvRead, srvSubs, pushed, loopRead, msgs,
                        loop, delivered, taken, putters>>
         /\ UNCHANGED <<cvars, pvars>>

\* The Subscriber, with at most ArgCalls calls, whose arguments are of any
\* type, and at most ArgOps calls of its Connection's send and setStream
\* with arguments that are no Value and no stream.
NextArgs ==
    \/ /\ Len(calls) < ArgCalls
       /\ \E t \in Tasks, op \in {"subscribe", "unsubscribe"},
             ch \in Channels \cup {NotAStr}, q \in Consumers \cup {NotAQueue} :
             Call(t, op, ch, q)
    \/ \E t \in Tasks : TaskSend(t) \/ TaskDrained(t) \/ TaskRetry(t)
    \/ LoopReceive
    \/ LoopRetry
    \/ LoopClosed
    \/ LoopReset
    \/ \E q \in Consumers : Get(q)
    \/ ServerStep
    \/ \E ch \in Channels : ServerPublish(ch)
    \/ ConnectionLost
    \/ ConnectionReset
    \/ Len(ops) < ArgOps /\ SendValue(None)
    \/ /\ Len(ops) < ArgOps
       /\ \E r \in StreamArgs, w \in StreamArgs :
             (~IsStream(r) \/ ~IsStream(w)) /\ SetStream(r, w)

SpecArgs == Init /\ [][NextArgs]_vars

\* ============================================================ the Publisher
\* Publisher of PubSub.py 6-140 on its own Connection, seen as `pubConn`
\* the way the Subscriber sees its Connection as `conn`.  The server answers
\* each PUBLISH command with one reply.  A reply is a record: `shape`
\* tells what receive makes of its bytes, `to` the command it answers (the
\* number of the publish call that wrote it), `n` the value of an Integer.
\*   "Integer"     an Integer;
\*   "Other"       a value of another class, or the None that receive
\*                 returns for an empty line or an unknown tag (247);
\*   "Unparsable"  bytes for which receive raises ParsingError;
\*   "Breaks"      the line "\n", for which line[-2] raises IndexError (162).
ReplyShapes == {"Integer", "Other", "Unparsable", "Breaks"}

Reply(shape, to, n) == [shape |-> shape, to |-> to, n |-> n]

NoReply == Reply("none", 0, 0)

\* self._conn.connected() of the Publisher's Connection (connection.py
\* 251-270): both handles set, the reader not at end of stream with an
\* empty buffer, the writer not closing.
PubConnected ==
    \/ pubConn = "open"
    \/ pubConn = "eof" /\ pubRead < Len(pubReplies)

\* `await self._conn.disconnect()` followed by `raise e`, on a Connection in
\* state c: the error raised and the state left.  On a connection that was
\* lost with an error disconnect() raises that error before it clears the
\* handles (connection.py 282-286).
PubFail(c, e) ==
    IF c = "reset" THEN [err |-> "ConnectionResetError", conn |-> "reset"]
    ELSE [err |-> e, conn |-> "none"]

\* The tasks are interchangeable: a call is started by the first idle one.
PubFirstIdle(t) ==
    /\ pubTask[t].pc = "idle"
    /\ \A u \in PubTasks : u < t => pubTask[u].pc # "idle"

\* Leaving `async with self._lock` (119) with the task records tk.
PubRelease(tk) ==
    IF pubWaiters = <<>>
    THEN /\ pubLocked' = FALSE
         /\ pubWaiters' = <<>>
         /\ pubTask' = tk
    ELSE /\ pubLocked' = TRUE
         /\ pubWaiters' = Tail(pubWaiters)
         /\ pubTask' = [tk EXCEPT ![Head(pubWaiters)].pc = "locked"]

\* The call of task t ends inside the `async with`: it returns ret
\* (err = "none") or raises err.  `recv` is how the calls of the Connection
\* ended (the class of the value received, or the error of send or
\* receive), `r` the reply received, `after` the state of the Connection.
PubEnd(t, me, err, ret, recv, r, after) ==
    /\ pubLog' = Append(pubLog, [id |-> me.id, err |-> err, ret |-> ret,
                                 recv |-> recv, reply |-> r,
                                 was |-> pubConn, after |-> after])
    /\ pubConn' = after
    /\ PubRelease([pubTask EXCEPT ![t] = PubIdle])

\* receive has read the next reply (123): the except clauses and the test
\* of 125-140.
PubTake(t, me) ==
    LET r == pubReplies[pubRead + 1]
    IN /\ pubRead' = pubRead + 1
       /\ IF r.shape = "Integer"
          THEN PubEnd(t, me, "none", r.n, "Integer", r, pubConn)
          ELSE IF r.shape = "Other"
          THEN PubEnd(t, me, "UnexpectedResponseError", 0, "Other", r,
                      pubConn)
          ELSE IF r.shape = "Unparsable"
          THEN LET f == PubFail(pubConn, "ParsingError")
               IN PubEnd(t, me, f.err, 0, "ParsingError", r, f.conn)
          ELSE PubEnd(t, me, "IndexError", 0, "IndexError", r, pubConn)

\* `ret = await self._conn.receive(timeout=timeout)` (123), from the call
\* to its first suspension.
PubReceive(t, me) ==
    IF pubConn = "none"
    THEN \* self.reader is None (connection.py 159)
         /\ PubEnd(t, me, "AttributeError", 0, "AttributeError", NoReply,
                   pubConn)
         /\ UNCHANGED pubRead
    ELSE IF pubConn = "reset"
    THEN /\ PubEnd(t, me, "ConnectionResetError", 0, "ConnectionResetError",
                   NoReply, pubConn)
         /\ UNCHANGED pubRead
    ELSE IF pubRead < Len(pubReplies)
    THEN PubTake(t, me)
    ELSE IF pubConn = "eof"
    THEN /\ PubEnd(t, me, "ConnectionClosedError", 0, "ConnectionClosedError",
                   NoReply, "none")
         /\ UNCHANGED pubRead
    ELSE /\ pubTask' = [pubTask EXCEPT ![t] = [me EXCEPT !.pc = "recv"]]
         /\ pubLocked' = TRUE
         /\ UNCHANGED <<pubWaiters, pubConn, pubLog, pubRead>>

\* The body of `async with self._lock` (119-140) up to its first
\* suspension, the lock being held by t: send (connection.py 120-130), then
\* receive.
PubBody(t, me) ==
    IF ~PubConnected
    THEN \* send disconnects and raises ConnectionClosedError, the clause of
         \* 129-131 disconnects again and raises the Publisher's error
         LET f == PubFail(pubConn, "ConnectionClosedError")
         IN /\ PubEnd(t, me, f.err, 0, f.err, NoReply, f.conn)
            /\ UNCHANGED <<pubWritten, pubRead>>
    ELSE /\ pubWritten' = Append(pubWritten, me.id)
         /\ \/ PubReceive(t, me)                   \* drain returns at once
            \/ /\ pubTask' = [pubTask EXCEPT ![t] = [me EXCEPT !.pc = "drain"]]
               /\ pubLocked' = TRUE                \* drain suspends
               /\ UNCHANGED <<pubWaiters, pubConn, pubLog, pubRead>>

\* `async with self._lock:` entered by task t (119).
PubWithLock(t, me) ==
    IF ~pubLocked /\ pubWaiters = <<>>
    THEN PubBody(t, me)
    ELSE /\ pubWaiters' = Append(pubWaiters, t)
         /\ pubTask' = [pubTask EXCEPT ![t] = [me EXCEPT !.pc = "lock_wait"]]
         /\ UNCHANGED <<pubLocked, pubConn, pubWritten, pubRead, pubLog>>

\* Publisher.publish(channel, message, timeout) with two strings, from the
\* call to its first suspension (107-119).
Publish(t, timeout) ==
    /\ PubFirstIdle(t)
    /\ pubCalls < MaxPubs
    /\ pubCalls' = pubCalls + 1
    /\ LET me == [pc |-> "call", id |-> pubCalls + 1, timeout |-> timeout]
       IN IF ~PubConnected
          THEN LET f == PubFail(pubConn, "ConnectionClosedError")
               IN /\ pubLog' = Append(pubLog,
                         [id |-> me.id, err |-> f.err, ret |-> 0,
                          recv |-> "none", reply |-> NoReply,
                          was |-> pubConn, after |-> f.conn])
                  /\ pubConn' = f.conn
                  /\ UNCHANGED <<pubTask, pubLocked, pubWaiters, pubWritten,
                                 pubRead>>
          ELSE PubWithLock(t, me)
    /\ UNCHANGED <<pubSrv, pubReplies>>
    /\ UNCHANGED <<svars, cvars>>

\* A task that waited for the lock has been given it and runs the body.
PubTaskSend(t) ==
    /\ pubTask[t].pc = "locked"
    /\ PubBody(t, pubTask[t])
    /\ UNCHANGED <<pubSrv, pubReplies, pubCalls>>
    /\ UNCHANGED <<svars, cvars>>

\* writer.drain() returns to a task suspended in it, which calls receive.
PubDrained(t) ==
    /\ pubTask[t].pc = "drain"
    /\ PubReceive(t, pubTask[t])
    /\ UNCHANGED <<pubWritten, pubSrv, pubReplies, pubCalls>>
    /\ UNCHANGED <<svars, cvars>>

\* The reply a task waits for in receive has arrived.
PubReply(t) ==
    /\ pubTask[t].pc = "recv"
    /\ pubConn \in {"open", "eof"}
    /\ pubRead < Len(pubReplies)
    /\ PubTake(t, pubTask[t])
    /\ UNCHANGED <<pubWritten, pubSrv, pubReplies, pubCalls>>
    /\ UNCHANGED <<svars, cvars>>

\* The timeout of a receive that waits for its reply expires: receive
\* raises TimeoutError, the clause of 133-135 disconnects and raises.
PubTimeout(t) ==
    /\ pubTask[t].pc = "recv"
    /\ pubTask[t].timeout
    /\ pubRead = Len(pubReplies)
    /\ LET f == PubFail(pubConn, "TimeoutError")
       IN PubEnd(t, pubTask[t], f.err, 0, "TimeoutError", NoReply, f.conn)
    /\ UNCHANGED <<pubWritten, pubSrv, pubReplies, pubRead, pubCalls>>
    /\ UNCHANGED <<svars, cvars>>

\* The receive of a waiting task fails at end of stream: receive
\* disconnects and raises ConnectionClosedError (connection.py 243-245),
\* the clause of 129-131 raises the Publisher's error.
PubClosed(t) ==
    /\ pubTask[t].pc = "recv"
    /\ \/ pubConn = "none"
       \/ pubConn = "eof" /\ pubRead = Len(pubReplies)
    /\ PubEnd(t, pubTask[t], "ConnectionClosedError", 0,
              "ConnectionClosedError", NoReply, "none")
    /\ UNCHANGED <<pubWritten, pubSrv, pubReplies, pubRead, pubCalls>>
    /\ UNCHANGED <<svars, cvars>>

\* The receive of a waiting task raises the error the connection was lost
\* with, which no except clause of publish names.
PubReset(t) ==
    /\ pubTask[t].pc = "recv"
    /\ pubConn = "reset"
    /\ PubEnd(t, pubTask[t], "ConnectionResetError", 0,
              "ConnectionResetError", NoReply, pubConn)
    /\ UNCHANGED <<pubWritten, pubSrv, pubReplies, pubRead, pubCalls>>
    /\ UNCHANGED <<svars, cvars>>

\* The server reads the next command and answers it.
PubServer(shape, n) ==
    /\ pubConn = "open"
    /\ pubSrv < Len(pubWritten)
    /\ pubSrv' = pubSrv + 1
    /\ pubReplies' = Append(pubReplies,
                            Reply(shape, pubWritten[pubSrv + 1], n))
    /\ UNCHANGED <<pubTask, pubLocked, pubWaiters, pubConn, pubWritten,
                   pubRead, pubCalls, pubLog>>
    /\ UNCHANGED <<svars, cvars>>

\* The peer closes the stream.
PubConnectionLost ==
    /\ pubConn = "open"
    /\ pubConn' = "eof"
    /\ UNCHANGED <<pubTask, pubLocked, pubWaiters, pubWritten, pubSrv,
                   pubReplies, pubRead, pubCalls, pubLog>>
    /\ UNCHANGED <<svars, cvars>>

\* The connection is lost with an error.  A receive already woken by a
\* reply runs first.
PubConnectionReset ==
    /\ pubConn = "open"
    /\ ~(pubRead < Len(pubReplies) /\ \E t \in PubTasks : pubTask[t].pc = "recv")
    /\ pubConn' = "reset"
    /\ UNCHANGED <<pubTask, pubLocked, pubWaiters, pubWritten, pubSrv,
                   pubReplies, pubRead, pubCalls, pubLog>>
    /\ UNCHANGED <<svars, cvars>>

\* The Publisher with at most MaxPubs publish calls by NumPubTasks tasks.
NextPub ==
    \/ \E t \in PubTasks, timeout \in BOOLEAN : Publish(t, timeout)
    \/ \E t \in PubTasks : PubTaskSend(t) \/ PubDrained(t) \/ PubReply(t)
    \/ \E t \in PubTasks : PubTimeout(t) \/ PubClosed(t) \/ PubReset(t)
    \/ \E shape \in ReplyShapes, n \in 0..1 : PubServer(shape, n)
    \/ PubConnectionLost
    \/ PubConnectionReset

SpecPub == Init /\ [][NextPub]_vars

\* ------------------------------------------------------------ the claims
\* How often the event ev is in the log dl of queue q.
NumEventsIn(dl, q, ev) ==
    Cardinality({i \in 1..Len(dl[q]) : dl[q][i] = ev})

\* How often the event ev has been put on queue q.
NumEvents(q, ev) == NumEventsIn(delivered, q, ev)

\* How often the command cmd has been written for channel ch.
NumWritten(cmd, ch) ==
    Cardinality({i \in 1..Len(written) : written[i] = [cmd |-> cmd, ch |-> ch]})

\* The calls of one operation on a channel (all queues), as indexes of calls.
CallsOn(op, ch) ==
    {i \in 1..Len(calls) : calls[i].op = op /\ calls[i].ch = ch}

\* The calls of one operation on a channel by one queue.
CallsBy(op, ch, q) == {i \in CallsOn(op, ch) : calls[i].q = q}

\* The consumers that occur in a list.
Members(list) == {list[i] : i \in 1..Len(list)}

\* The call started in this step, when one is.
CallStarted == Len(calls') = Len(calls) + 1

NewCall == calls'[Len(calls')]

\* C1: no channel name is a key of both the pending and the subscribed map.
C1_OneMap == DOMAIN pending \cap DOMAIN subscribed = {}

\* C2: for an Unsubscribed channel the check, the write of SUBSCRIBE and the
\* creation of the Pending entry are atomic with respect to the other calls:
\* a SUBSCRIBE for a channel is written only while the channel is in neither
\* map, and no step drops a consumer from a channel's pending list.
C2_AtomicSubscribe ==
    [][\A ch \in Channels :
        /\ NumWritten("SUBSCRIBE", ch)' > NumWritten("SUBSCRIBE", ch)
              => ch \notin DOMAIN pending /\ ch \notin DOMAIN subscribed
        /\ (ch \in DOMAIN pending /\ ch \in DOMAIN pending')
              => Members(pending[ch]) \subseteq Members(pending'[ch])]_vars

\* The pushes that acknowledge a SUBSCRIBE of channel ch, as indexes of pushed.
AckAt(ch) ==
    {k \in 1..Len(pushed) : pushed[k].kind = "subscribe" /\ pushed[k].ch = ch}

\* The subscribe calls on ch made before the loop had processed an
\* acknowledgement for ch (nobody having unsubscribed from ch): those that
\* found ch Unsubscribed or Pending.
Early(ch) ==
    {i \in CallsOn("subscribe", ch) :
        calls[i].st \in {"Unsubscribed", "Pending"}}

\* The payloads of the Message events of channel ch on queue q, in order.
MessagesOn(q, ch) ==
    LET ms == SelectSeq(delivered[q],
                LAMBDA e : e.type = "QMessage" /\ e.channel = ch)
    IN [i \in 1..Len(ms) |-> ms[i].data]

\* The payloads of the message pushes of channel ch the loop has received.
MessagesReceived(ch) ==
    LET ps == SelectSeq(SubSeq(pushed, 1, loopRead),
                LAMBDA p : p.kind = "message" /\ p.ch = ch)
    IN [i \in 1..Len(ps) |-> ps[i].data]

\* C3: when two consumers subscribe to a channel before its acknowledgement
\* is processed (and nobody unsubscribes from it), one SUBSCRIBE is written
\* for them, each has exactly one Subscribed event once the loop has
\* delivered the acknowledgement, and each has every message the loop has
\* dispatched for the channel, in the order of the pushes.
C3_FanOut ==
    \A ch \in Channels :
        LET early == {calls[i].q : i \in Early(ch)}
            k == CHOOSE k \in AckAt(ch) : \A j \in AckAt(ch) : k <= j
        IN (/\ Cardinality(early) >= 2
            /\ CallsOn("unsubscribe", ch) = {}
            /\ \A q \in early : Cardinality(CallsBy("subscribe", ch, q)) = 1)
           => /\ Early(ch) = CallsOn("subscribe", ch)
                    => NumWritten("SUBSCRIBE", ch) <= 1
              /\ (/\ AckAt(ch) # {}
                  /\ loop.pc = "recv"
                  /\ loopRead >= k
                  /\ \A t \in Tasks : task[t].pc = "idle")
                    => \A q \in early :
                          /\ NumEvents(q, QSubscribed(ch)) = 1
                          /\ MessagesOn(q, ch) = MessagesReceived(ch)

\* C4: a subscribe call on a Subscribed channel writes no command and puts
\* an event on no queue but the caller's, and no consumer ever has more
\* Subscribed events of a channel than it made subscribe calls for it.
C4_JoinOnce ==
    [][/\ (/\ CallStarted
           /\ NewCall.op = "subscribe"
           /\ NewCall.ch \in DOMAIN subscribed
           /\ NewCall.ch \notin DOMAIN pending)
          => /\ written' = written
             /\ \A q \in Consumers \ {NewCall.q} : delivered'[q] = delivered[q]
       /\ \A ch \in Channels, q \in Consumers :
             NumEvents(q, QSubscribed(ch))'
                <= Cardinality(CallsBy("subscribe", ch, q))']_vars

\* The loop ends the dispatch of a message push in this step.
MessageDispatched ==
    /\ loop'.pc = "recv"
    /\ \/ loop.pc = "put_ready" /\ loop.kind = "message"
       \/ /\ loop.pc = "recv"
          /\ loopRead' = loopRead + 1
          /\ pushed[loopRead'].kind = "message"
          /\ pushed[loopRead'].ch \in DOMAIN subscribed

\* The push whose dispatch ends in this step.
Dispatched == IF loop.pc = "recv" THEN pushed[loopRead'] ELSE loop

\* C5: when the loop has dispatched a message push, no consumer bound to the
\* channel has been skipped, and a consumer that is bound once has the
\* Message event exactly once.
C5_NoneSkipped ==
    [][MessageDispatched =>
        LET ch == Dispatched.ch
            ev == QMessage(ch, Dispatched.data)
        IN \A q \in Members(subscribed'[ch]) :
              /\ NumEventsIn(delivered', q, ev) >= 1
              /\ Cardinality({i \in 1..Len(subscribed'[ch]) :
                                 subscribed'[ch][i] = q}) = 1
                    => NumEventsIn(delivered', q, ev) = 1]_vars

\* C6: an unsubscribe call by one of two or more consumers bound to a
\* Subscribed channel removes that consumer and only it from the list, keeps
\* the others in their order, writes no command and puts at most the
\* caller's Unsubscribed event on the caller's queue.
C6_SharedUnsubscribe ==
    [][(/\ CallStarted
        /\ NewCall.op = "unsubscribe"
        /\ NewCall.ch \in DOMAIN subscribed
        /\ NewCall.q \in Members(subscribed[NewCall.ch])
        /\ Cardinality(Members(subscribed[NewCall.ch])) >= 2)
       => /\ NewCall.ch \in DOMAIN subscribed'
          /\ subscribed'[NewCall.ch] =
                SelectSeq(subscribed[NewCall.ch], LAMBDA x : x # NewCall.q)
          /\ written' = written
          /\ \A q \in Consumers \ {NewCall.q} : delivered'[q] = delivered[q]
          /\ \/ delivered'[NewCall.q] = delivered[NewCall.q]
             \/ delivered'[NewCall.q] =
                   Append(delivered[NewCall.q], QUnsubscribed(NewCall.ch))]_vars

\* C7: an unsubscribe call by the only consumer bound to a Subscribed channel
\* leaves the subscribed map and every queue as they are, and writes
\* UNSUBSCRIBE for the channel (as soon as it has the lock, and provided the
\* Connection is connected).
C7_LastUnsubscribe ==
    [][(/\ CallStarted
        /\ NewCall.op = "unsubscribe"
        /\ NewCall.ch \in DOMAIN subscribed
        /\ Members(subscribed[NewCall.ch]) = {NewCall.q})
       => /\ subscribed' = subscribed
          /\ delivered' = delivered
          /\ \/ written' = Append(written, [cmd |-> "UNSUBSCRIBE",
                                            ch |-> NewCall.ch])
             \/ written' = written /\ (locked \/ ~Connected)]_vars

\* C8: once the receive loop has terminated, no event is put on any queue.
C8_NoDeliveryAfterEnd ==
    [][loop.pc = "done" => delivered' = delivered]_vars

\* C9: no consumer occurs twice in the list of a channel, in either map.
C9_NoDuplicate ==
    \A m \in {pending, subscribed} : \A ch \in DOMAIN m :
        \A i, j \in 1..Len(m[ch]) : m[ch][i] = m[ch][j] => i = j

\* The loop receives, in this step, a push of the kind for channel ch.
Receives(kind, ch) ==
    /\ loopRead' = loopRead + 1
    /\ pushed[loopRead'].kind = kind
    /\ pushed[loopRead'].ch = ch

\* C10: the state of a channel changes only from Unsubscribed to Pending (by
\* a subscribe call that has written SUBSCRIBE), from Pending to Subscribed
\* (by the loop receiving the channel's subscribe push) and from Subscribed
\* to Unsubscribed (by the loop receiving the channel's unsubscribe push).
C10_Lifecycle ==
    [][\A ch \in Channels :
        LET old == StateOf(pending, subscribed, ch)
            new == StateOf(pending', subscribed', ch)
        IN \/ new = old
           \/ /\ old = "Unsubscribed" /\ new = "Pending"
              /\ NumWritten("SUBSCRIBE", ch)' >= 1
              /\ loopRead' = loopRead
           \/ old = "Pending" /\ new = "Subscribed"
                 /\ Receives("subscribe", ch)
           \/ old = "Subscribed" /\ new = "Unsubscribed"
                 /\ Receives("unsubscribe", ch)]_vars

\* The step is taken by a task that holds the write lock: one that is between
\* the acquisition and the release of `async with self._lock`, or a call that
\* found its channel in neither map and acquired the free lock at once.
HoldsLock ==
    \/ \E t \in Tasks : task[t].pc \in {"locked", "drain"} /\ task'[t] # task[t]
    \/ /\ CallStarted
       /\ NewCall.st = "Unsubscribed"
       /\ \E t \in Tasks : task[t].pc = "idle" /\ task'[t].pc # "lock_wait"

\* The receive loop is in the middle of promoting or removing channel ch.
LoopChanging(ch) ==
    /\ loop.pc \in {"put_wait", "put_ready"}
    /\ loop.kind \in {"subscribe", "unsubscribe"}
    /\ loop.ch = ch

\* C11: every change a subscribe or unsubscribe call makes to the pending or
\* the subscribed map is made while the caller holds the write lock, and no
\* SUBSCRIBE or UNSUBSCRIBE of a channel is written while the receive loop
\* is promoting or removing that channel.
C11_MapsUnderLock ==
    [][/\ (/\ pending' # pending \/ subscribed' # subscribed
           /\ loopRead' = loopRead /\ loop' = loop)
          => HoldsLock
       /\ \A ch \in Channels :
            LoopChanging(ch)
               => /\ NumWritten("SUBSCRIBE", ch)' = NumWritten("SUBSCRIBE", ch)
                  /\ NumWritten("UNSUBSCRIBE", ch)' = NumWritten("UNSUBSCRIBE", ch)]_vars

\* The positions at which the payload d occurs in the sequence ms.
PositionsOf(ms, d) == {k \in 1..Len(ms) : ms[k] = d}

\* C12: for every channel and every consumer, the Message events of the
\* channel in the consumer's queue are in the order in which the server sent
\* the message pushes, and no push is in the queue twice: the events map to
\* strictly increasing positions of the sequence of pushes received.
C12_MessageOrder ==
    \A ch \in Channels, q \in Consumers :
        LET ms == MessagesOn(q, ch)
            ps == MessagesReceived(ch)
        IN \A i, j \in 1..Len(ms) :
              i < j => \E a \in PositionsOf(ps, ms[i]), b \in PositionsOf(ps, ms[j]) :
                          a < b

\* The events that are in queue q: put and not yet taken.
InQueue(q) == SubSeq(delivered[q], taken[q] + 1, Len(delivered[q]))

IsPrefix(a, b) == Len(a) <= Len(b) /\ SubSeq(b, 1, Len(a)) = a

\* The deliverer with the pending put of event ev on queue q, woken, either
\* finds the queue full again and waits on, or enqueues ev.
Enqueues(q, ev, waitsOn) ==
    \/ waitsOn /\ Full(delivered, q) /\ delivered' = delivered
    \/ ~Full(delivered, q) /\ IsPrefix(Append(delivered[q], ev), delivered'[q])

\* C13: a put on a full queue suspends the deliverer until there is room
\* and the event is then enqueued.  No queue ever holds more than its
\* capacity, no step removes or replaces an event other than the consumer
\* taking the oldest one, a deliverer is suspended only on a full queue and
\* leaves the suspension only by being woken, a woken deliverer that goes on
\* has enqueued its event, and the loop receives no push while suspended.
C13_Backpressure ==
    [][/\ \A q \in Consumers :
            /\ Len(InQueue(q)') <= QueueCap
            /\ IsPrefix(delivered[q], delivered'[q])
            /\ taken'[q] \in {taken[q], taken[q] + 1}
       /\ loop.pc \in {"put_wait", "put_ready"} => loopRead' = loopRead
       /\ (loop.pc # "put_wait" /\ loop'.pc = "put_wait")
            => Full(delivered', loop'.q)
       /\ loop.pc = "put_wait"
            => loop' = loop \/ loop' = [loop EXCEPT !.pc = "put_ready"]
       /\ (loop.pc = "put_ready" /\ loop' # loop)
            => Enqueues(loop.q, LoopEvent(loop.kind, loop.ch, loop.data),
                        loop' = [loop EXCEPT !.pc = "put_wait"])
       /\ \A t \in Tasks :
            /\ (task[t].pc # "put_wait" /\ task'[t].pc = "put_wait")
                 => Full(delivered', task'[t].q)
            /\ task[t].pc = "put_wait"
                 => \/ task'[t] = task[t]
                    \/ task'[t] = [task[t] EXCEPT !.pc = "put_ready"]
            /\ (task[t].pc = "put_ready" /\ task'[t] # task[t])
                 => Enqueues(task[t].q, EventOf(task[t]),
                             task'[t] = [task[t] EXCEPT !.pc = "put_wait"])]_vars

\* The loop is suspended on a full queue while a further push is waiting to
\* be received.
C13_Suspended ==
    /\ loop.pc = "put_wait"
    /\ Full(delivered, loop.q)
    /\ loopRead < Len(pushed)

\* The push the loop receives in this step, when it receives one.
NewPush == pushed[loopRead + 1]

\* The loop receives a push in this step: receive returns its value.
Received == loopRead' = loopRead + 1 /\ Parses(NewPush)

\* The loop ends the step disconnected and terminated with an
\* unexpected-response error, no map and no queue having changed.
Rejected ==
    /\ conn' = "none"
    /\ loop'.pc = "done"
    /\ loop'.err = "UnexpectedResponseError"
    /\ pending' = pending
    /\ subscribed' = subscribed
    /\ delivered' = delivered
    /\ putters' = putters

\* C14: when the loop receives a value that is not an Array of length 3
\* whose first element is a BulkString equal to subscribe, message or
\* unsubscribe, it disconnects, terminates with an unexpected-response
\* error and changes neither map and no queue.
C14_BadShape ==
    [][(/\ Received
        /\ \/ NewPush.shape # "Array3"
           \/ NewPush.kind \notin {"subscribe", "message", "unsubscribe"})
       => Rejected]_vars

\* The push has the fields of its kind: a channel name that decodes, and a
\* count (subscribe, unsubscribe) or a payload (message).
FieldsOk(p) ==
    /\ p.f2 = "BulkString"
    /\ p.kind = "message" => p.f3 = "BulkString"
    /\ p.kind # "message" => p.f3 = "Integer"

\* C15: a subscribe push for a channel that is not Pending, a message or an
\* unsubscribe push for a channel that is not Subscribed, and a push with a
\* second or third field of the wrong type make the loop disconnect and
\* terminate with an unexpected-response error; no event is put on a queue
\* and the maps are left as they were.
C15_BadState ==
    [][(/\ Received
        /\ NewPush.shape = "Array3"
        /\ \/ NewPush.kind = "subscribe" /\ NewPush.ch \notin DOMAIN pending
           \/ NewPush.kind \in {"message", "unsubscribe"}
                 /\ NewPush.ch \notin DOMAIN subscribed
           \/ NewPush.kind \in {"subscribe", "message", "unsubscribe"}
                 /\ ~FieldsOk(NewPush))
       => Rejected]_vars

\* The loop receives a subscribe push for a Pending channel in this step.
Promotes(ch) ==
    /\ Received
    /\ NewPush.shape = "Array3" /\ FieldsOk(NewPush)
    /\ NewPush.kind = "subscribe" /\ NewPush.ch = ch
    /\ ch \in DOMAIN pending

\* The loop ends the delivery of the Subscribed events of ch in this step.
SubscribeDispatched(ch) ==
    /\ loop'.pc = "recv"
    /\ \/ Promotes(ch)
       \/ loop.pc = "put_ready" /\ loop.kind = "subscribe" /\ loop.ch = ch

\* C16: when the loop processes a subscribe push for a Pending channel, the
\* channel's list is moved unchanged from the pending to the subscribed map,
\* and when the loop has gone through the list every consumer that was
\* registered before the push and is still bound has a Subscribed event of
\* the channel.
C16_Promotion ==
    [][\A ch \in Channels :
        /\ Promotes(ch)
             => /\ ch \notin DOMAIN pending'
                /\ ch \in DOMAIN subscribed'
                /\ subscribed'[ch] = pending[ch]
        /\ (SubscribeDispatched(ch) /\ ch \in DOMAIN subscribed')
             => \A q \in Members(subscribed'[ch]) :
                   (\E i \in Early(ch) : calls[i].q = q)
                      => NumEventsIn(delivered', q, QSubscribed(ch)) >= 1]_vars

\* The loop receives an unsubscribe push for a Subscribed channel in this
\* step.
Removes(ch) ==
    /\ Received
    /\ NewPush.shape = "Array3" /\ FieldsOk(NewPush)
    /\ NewPush.kind = "unsubscribe" /\ NewPush.ch = ch
    /\ ch \in DOMAIN subscribed

\* The loop ends the delivery of the Unsubscribed events of ch in this step.
UnsubscribeDispatched(ch) ==
    /\ loop'.pc = "recv"
    /\ \/ Removes(ch)
       \/ loop.pc = "put_ready" /\ loop.kind = "unsubscribe" /\ loop.ch = ch

\* The consumers bound to ch at the moment the loop received the unsubscribe
\* push whose dispatch ends in this step.
BoundThen(ch) ==
    IF loop.pc = "recv" THEN Members(subscribed[ch]) ELSE Members(loop.ch_q)

\* C17: when the loop processes an unsubscribe push for a Subscribed
\* channel, the channel is removed from the subscribed map, every consumer
\* bound at that moment has the Unsubscribed event when the loop has gone
\* through the list, and exactly one per push: a consumer never has more
\* Unsubscribed events of a channel than unsubscribe pushes received for it
\* plus its own unsubscribe calls, and none if it never subscribed to it.
C17_Removal ==
    [][\A ch \in Channels :
        /\ Removes(ch)
             => ch \notin DOMAIN subscribed' /\ pending' = pending
        /\ UnsubscribeDispatched(ch)
             => \A q \in BoundThen(ch) :
                   NumEventsIn(delivered', q, QUnsubscribed(ch)) >= 1
        /\ \A q \in Consumers :
             LET n == NumEventsIn(delivered', q, QUnsubscribed(ch))
                 pushes == {k \in 1..loopRead' :
                              /\ pushed[k].kind = "unsubscribe"
                              /\ pushed[k].ch = ch}
                 own == {i \in 1..Len(calls') :
                              /\ calls'[i].op = "unsubscribe"
                              /\ calls'[i].ch = ch /\ calls'[i].q = q}
                 joined == {i \in 1..Len(calls') :
                              /\ calls'[i].op = "subscribe"
                              /\ calls'[i].ch = ch /\ calls'[i].q = q}
             IN /\ n <= Cardinality(pushes) + Cardinality(own)
                /\ n > 0 => joined # {}]_vars

\* C18: an unsubscribe call for a channel that is not in the subscribed map
\* (Unsubscribed or still Pending), or for a consumer that is not in the
\* channel's subscribed list, changes neither map, delivers no event, writes
\* no command and leaves no task waiting.
C18_NoOpUnsubscribe ==
    [][(/\ CallStarted
        /\ NewCall.op = "unsubscribe"
        /\ \/ NewCall.ch \notin DOMAIN subscribed
           \/ NewCall.q \notin Members(subscribed[NewCall.ch]))
       => /\ pending' = pending
          /\ subscribed' = subscribed
          /\ delivered' = delivered
          /\ written' = written
          /\ putters' = putters
          /\ lockWaiters' = lockWaiters /\ locked' = locked
          /\ \A t \in Tasks : task'[t].pc = task[t].pc]_vars

\* The last call was an unsubscribe by a consumer that never subscribed to
\* the channel, which it found Subscribed, while another channel is Pending.
C18_NotBound ==
    /\ calls # <<>>
    /\ LET c == calls[Len(calls)]
       IN /\ c.op = "unsubscribe"
          /\ c.st = "Subscribed"
          /\ c.ch \in DOMAIN subscribed
          /\ CallsBy("subscribe", c.ch, c.q) = {}
    /\ pending # << >>

\* A receive call ends in this step.
CallEnded == Len(results') = Len(results) + 1

\* The outcome of the call that ends in this step.
Ended == results'[Len(results')]

FrameAt(pos) ==
    LET ks == {k \in 1..Len(frames) :
                  Len(WireOf(SubSeq(frames, 1, k - 1))) = pos}
    IN IF ks = {} THEN None ELSE frames[CHOOSE k \in ks : TRUE]

\* C20: a receive call that fails with a timeout error has consumed no byte
\* of the stream, and the receive call made next, when it returns a value,
\* returns the Value the timed-out call was waiting for (where the peer had
\* encoded a Value there).
C20_TimeoutConsumesNothing ==
    [][CallEnded
       => /\ Ended.err = "TimeoutError" => rxPos' = Ended.start
          /\ (/\ results # <<>>
              /\ results[Len(results)].err = "TimeoutError"
              /\ FrameAt(results[Len(results)].start) \in Sendable
              /\ Ended.err = "none")
               => Ended.val = FrameAt(results[Len(results)].start)]_vars

\* C21: a receive call that is interrupted while it fills an Array, by the
\* end of the stream or by a timeout on an element, fails with
\* ConnectionClosedError, and an Array that a call returns has all the
\* elements its header declares.
C21_ArrayInterrupted ==
    [][(CallEnded /\ call.pc \in {"line", "body"} /\ call.stack # <<>>)
       => /\ Ended.err \in {"TimeoutError", "ConnectionClosedError"}
               => Ended.err = "ConnectionClosedError"
          /\ (Ended.err = "none" /\ Ended.val.type = "Array")
               => Len(Ended.val.items) = call.stack[1].size]_vars

\* The bytes at hand do not hold the rest of the frame the call reads.
Starved ==
    LET out == IF call.pc = "body"
               THEN ReadBody(buffer, rxPos, call.stack, call.need, FALSE)
               ELSE ReadLine(buffer, rxPos, call.stack, FALSE)
    IN out.kind \in {"line", "body"}

\* C22: a receive call that ends when the stream has ended, or has reported
\* a read error, before the frame is complete fails with
\* ConnectionClosedError and leaves the Connection disconnected: both
\* handles cleared and connected() false, whatever the depth of the Array
\* the call is in.
C22_EndOfStream ==
    [][(/\ CallEnded
        /\ reader = "stream"
        /\ Ended.err # "TimeoutError"
        /\ (eof /\ Starved) \/ exc # "None")
       => /\ Ended.err = "ConnectionClosedError"
          /\ reader' = "None"
          /\ writer' = "None"
          /\ ~IsConnected']_vars

\* The frames of the peer that are a line ended by LF with no CR in it.
NoCR == {f \in RawFrames : \A i \in 1..Len(f.bytes) : f.bytes[i] # CR}

\* The call that ends in this step was not cut short by a timeout or by the
\* loss of the stream, and the Connection had a reader.
ReadThrough ==
    Ended.err \notin {"TimeoutError", "ConnectionClosedError",
                      "ConnectionResetError", "AttributeError"}

\* C23: a receive call that reads a header line ended by LF without a CR
\* before it, the line of LF alone included, fails with ParsingError and
\* returns no Value.
C23_MissingCR ==
    [][(CallEnded /\ FrameAt(Ended.start) \in NoCR /\ ReadThrough)
       => Ended.err = "ParsingError" /\ Ended.val = None]_vars

\* C24 as stated: a receive call that fails with ParsingError leaves both
\* handles as they were, and connected() returns after the call what it
\* returned when the call was made.
C24_ConnectedAsBefore ==
    [][(CallEnded /\ Ended.err = "ParsingError")
       => /\ reader' = reader
          /\ writer' = writer
          /\ IsConnected' = Ended.was]_vars

\* C24: a receive call that fails with ParsingError does not disconnect:
\* the step in which it fails leaves both handles set, and connected()
\* returns after the call what it returned when the call was made unless
\* the stream has ended or failed by then: at end of stream connected()
\* is false as soon as the call has read the last buffered byte.
C24_ParsingKeepsHandles ==
    [][(CallEnded /\ Ended.err = "ParsingError")
       => /\ reader' = reader /\ reader' = "stream"
          /\ writer' = writer /\ writer' = "stream"
          /\ Ended.was
          /\ (~eof' /\ exc' = "None") => IsConnected'
          /\ IsConnected' = ~((eof' /\ buffer' = <<>>) \/ exc' # "None")]_vars

\* A receive call has failed with ParsingError, inside an Array or not, and
\* the Connection is connected; the receive call made after it has returned
\* a Value.
C24_ReceivedAfterParsingError ==
    /\ IsConnected
    /\ \E i \in 1..Len(results) :
          /\ i < Len(results)
          /\ results[i].err = "ParsingError"
          /\ results[i + 1].err = "none"
          /\ results[i + 1].val \in Sendable

\* A call of send, disconnect or setStream ends in this step.
OpEnded == Len(ops') = Len(ops) + 1

\* The outcome of the send, disconnect or setStream call that ends in this
\* step.
LastOp == ops'[Len(ops')]

\* C25: send of a Value on a Connection for which connected() is false
\* writes no byte and fails with ConnectionClosedError, whatever makes
\* connected() false: no handles yet, handles cleared, end of stream read,
\* or the writer closing.
C25_SendNotConnected ==
    [][(OpEnded /\ LastOp.op = "send" /\ LastOp.a1 # "None" /\ ~LastOp.was)
       => /\ sent' = sent
          /\ LastOp.err = "ConnectionClosedError"]_vars

\* C26: no disconnect call fails, each one ends with both handles cleared
\* and connected() false, and a disconnect that follows a disconnect, no
\* connect in between, changes nothing.
C26_DisconnectIdempotent ==
    [][(OpEnded /\ LastOp.op = "disconnect")
       => /\ LastOp.err = "none"
          /\ reader' = "None"
          /\ writer' = "None"
          /\ ~IsConnected'
          /\ (ops # <<>> /\ ops[Len(ops)].op = "disconnect" /\ reader = "None")
               => UNCHANGED <<reader, writer, wire, buffer, eof, exc,
                              sent>>]_vars

\* What a call that its argument check rejects must leave as it is: the
\* connection, what was written to it, both maps, the queues and the lock.
Untouched ==
    UNCHANGED <<pending, subscribed, conn, written, delivered, putters,
                locked, lockWaiters, reader, writer, sent, wire, buffer, eof,
                exc>>

\* C27: subscribe and unsubscribe called with a channel that is no str or
\* with a q that is no queue, send called with an object that is no Value
\* and setStream called with an object that is no stream raise ValueError
\* and leave the connection, the bytes written, both maps and every
\* consumer queue unchanged.
C27_InvalidArguments ==
    [][/\ (CallStarted /\ (NewCall.ch = NotAStr \/ NewCall.q = NotAQueue))
          => /\ \E t \in Tasks :
                   /\ task[t].pc = "idle"
                   /\ task' = [task EXCEPT ![t] = Returned("ValueError")]
             /\ Untouched
       /\ (/\ OpEnded
           /\ \/ LastOp.op = "send" /\ LastOp.a1 = "None"
              \/ /\ LastOp.op = "setStream"
                 /\ LastOp.a1 # "stream" \/ LastOp.a2 # "stream")
          => /\ LastOp.err = "ValueError"
             /\ task' = task
             /\ Untouched]_vars

\* Each of the four operations has been called with an argument of the
\* wrong type and has raised ValueError, the subscribe or unsubscribe call
\* while a channel was bound and its consumer's queue held an event.
C27_AllRejected ==
    /\ subscribed # << >>
    /\ \E q \in Consumers : delivered[q] # <<>>
    /\ calls # <<>>
    /\ calls[Len(calls)].ch = NotAStr \/ calls[Len(calls)].q = NotAQueue
    /\ \E t \in Tasks : task[t].err = "ValueError"
    /\ ops # <<>>
    /\ ops[1].err = "ValueError"

Unread == buffer \o wire

\* C29: a receive call that returns a Value has taken from the stream
\* exactly the bytes of the encoding of that Value, the bytes after them
\* being left for the next call (for a BulkString of length L the header
\* line and L + 2 bytes), and a call that starts where the encoding of a
\* Value starts stops where that encoding ends.
C29_ExactConsumption ==
    [][(CallEnded /\ Ended.err = "none" /\ Ended.val # None)
       => /\ Ended.end = Ended.start + Len(Serialize(Ended.val))
          /\ rxPos' = Ended.end
          /\ (~eof' /\ exc' = "None")
               => WireOf(frames) =
                     SubSeq(WireOf(frames), 1, Ended.end) \o Unread'
          /\ FrameAt(Ended.start) \in Sendable
               => Ended.end
                    = Ended.start + Len(Serialize(FrameAt(Ended.start)))]_vars

\* Two receive calls have returned the two Values the peer serialized one
\* after the other, the first a BulkString, and have taken the whole
\* stream.
C29_TwoValues ==
    /\ Len(frames) = 2
    /\ Len(results) = 2
    /\ frames[1].type = "BulkString" /\ frames[1].bytes # <<>>
    /\ frames[2] \in Sendable
    /\ results[1].err = "none" /\ results[1].val = frames[1]
    /\ results[1].end = Len(frames[1].bytes) + 6
    /\ results[2].err = "none" /\ results[2].val = frames[2]
    /\ results[2].start = results[1].end
    /\ rxPos = Len(WireOf(frames))

\* The headers of a BulkString and of an Array of length -1, and those of
\* length -2.
NilHeaders == {Null, Raw(<<"*", "-", "1">> \o CRLF)}

BadLengths == {Raw(<<"$", "-", "2">> \o CRLF), Raw(<<"*", "-", "2">> \o CRLF)}

\* C30: a receive call that reads a BulkString header or an Array header of
\* length -1 returns Null, the same Value for both, and has read the header
\* line only; Null is serialized as the BulkString header of length -1; a
\* call that reads a header of a length below -1 fails with ParsingError.
C30_NullCollapse ==
    [][(CallEnded /\ ReadThrough)
       => /\ FrameAt(Ended.start) \in NilHeaders
               => /\ Ended.err = "none"
                  /\ Ended.val = Null
                  /\ Ended.end = Ended.start + 5
          /\ FrameAt(Ended.start) \in BadLengths
               => Ended.err = "ParsingError" /\ Ended.val = None
          /\ Serialize(Null) = <<"$", "-", "1">> \o CRLF]_vars

\* Two receive calls have returned Null, one for the nil BulkString and one
\* for the nil Array.
C30_BothNil ==
    /\ Len(results) = 2
    /\ results[1].err = "none" /\ results[1].val = Null
    /\ results[2].err = "none" /\ results[2].val = Null
    /\ {FrameAt(results[1].start), FrameAt(results[2].start)} = NilHeaders

\* The step in which task t runs the body of `async with self._lock` of a
\* call `op`: either the call itself, the lock being free, or the step of a
\* task that was given the lock.
SendRan(t, op) ==
    \/ /\ task[t].pc = "locked"
       /\ task[t].op = op
       /\ task'[t] # task[t]
    \/ /\ FirstIdle(t)
       /\ CallStarted
       /\ NewCall.op = op
       /\ task'[t].pc # "lock_wait"
       /\ IF op = "subscribe"
          THEN NewCall.ch \notin DOMAIN pending \cup DOMAIN subscribed
          ELSE /\ NewCall.ch \in DOMAIN subscribed
               /\ subscribed[NewCall.ch] = <<NewCall.q>>

\* C31: an unsubscribe call that reaches its send while the Connection is
\* not connected raises the Subscriber's ConnectionClosedError to its caller
\* and leaves the Connection disconnected.
C31_UnsubscribeNotConnected ==
    [][\A t \in Tasks :
          (SendRan(t, "unsubscribe") /\ ~Connected)
              => /\ task'[t].pc = "idle"
                 /\ task'[t].err = "ConnectionClosedError"
                 /\ ~Connected']_vars

\* C32: a subscribe call that reaches its send while the Connection is not
\* connected raises the Subscriber's ConnectionClosedError, leaves the lock
\* to the next waiter (or free), and changes neither map nor any queue: the
\* channel, absent from both maps before the step, is absent after it.
C32_SubscribeNotConnected ==
    [][\A t \in Tasks :
          (SendRan(t, "subscribe") /\ ~Connected)
              => /\ task'[t] = Returned("ConnectionClosedError")
                 /\ locked' = (lockWaiters # <<>>)
                 /\ pending' = pending
                 /\ subscribed' = subscribed
                 /\ delivered' = delivered
                 /\ putters' = putters]_vars

\* The events queue q has been given for channel ch, in order.
EventsOf(q, ch) == SelectSeq(delivered[q], LAMBDA e : e.channel = ch)

\* The lifecycle order of a sequence of events of one channel, `bound`
\* telling whether a Subscribed event is open at its start.
RECURSIVE Ordered(_, _)
Ordered(evs, bound) ==
    IF evs = <<>> THEN TRUE
    ELSE LET e == Head(evs)
         IN IF e.type = "QSubscribed" THEN ~bound /\ Ordered(Tail(evs), TRUE)
            ELSE IF e.type = "QUnsubscribed"
            THEN bound /\ Ordered(Tail(evs), FALSE)
            ELSE bound /\ Ordered(Tail(evs), bound)

\* The calls of consumer q on channel ch, in order.
OpsBy(ch, q) ==
    LET cs == SelectSeq(calls, LAMBDA c : c.ch = ch /\ c.q = q)
    IN [i \in 1..Len(cs) |-> cs[i].op]

\* Consumer q has called subscribe and unsubscribe on ch in turn.
InTurn(ch, q) ==
    \A i \in 1..Len(OpsBy(ch, q)) :
        OpsBy(ch, q)[i] = IF i % 2 = 1 THEN "subscribe" ELSE "unsubscribe"

\* C33: the events a consumer's queue is given for a channel follow the
\* lifecycle order (Subscribed, then Messages, then Unsubscribed, then
\* Subscribed again ...), for a consumer that calls subscribe and
\* unsubscribe on that channel in turn.
C33_LifecycleOrder ==
    \A ch \in Channels, q \in Consumers :
        InTurn(ch, q) => Ordered(EventsOf(q, ch), FALSE)

\* C34: a queue holds an Unsubscribed event for a channel only if its
\* consumer has called unsubscribe for that channel.
C34_UnsubscribedOnlyOnRequest ==
    \A ch \in Channels, q \in Consumers :
        NumEvents(q, QUnsubscribed(ch)) > 0
            => CallsBy("unsubscribe", ch, q) # {}

\* The unsubscribe pushes for channel ch the receive loop has received.
AcksRead(ch) ==
    {i \in 1..loopRead : pushed[i].kind = "unsubscribe" /\ pushed[i].ch = ch}

\* The UNSUBSCRIBE commands for ch written and not yet acknowledged to the
\* receive loop.
Outstanding(ch) == NumWritten("UNSUBSCRIBE", ch) - Cardinality(AcksRead(ch))

\* The receive loop has ended on an unsubscribe push.
EndedOnAck ==
    /\ loop.pc = "done"
    /\ loop.err = "UnexpectedResponseError"
    /\ loopRead > 0
    /\ pushed[loopRead].kind = "unsubscribe"

\* C35: at most one UNSUBSCRIBE per channel is written and not yet
\* acknowledged, and the receive loop never ends with
\* UnexpectedResponseError on an unsubscribe push.
C35_OneOutstanding ==
    /\ \A ch \in Channels : Outstanding(ch) <= 1
    /\ ~EndedOnAck

\* The six classes of RESP objects.
Variants == {"SimpleString", "Error", "Integer", "BulkString", "Null", "Array"}

\* C36: every receive call that ended without an error returned a RESP
\* object of one of the six classes (never Python's None).
C36_SixVariants ==
    \A i \in 1..Len(results) :
        results[i].err = "none" => results[i].val.type \in Variants

\* The tasks inside the body of `async with self._lock`: suspended in the
\* drain of their send, or given the lock and about to send.
Holders == {t \in Tasks : task[t].pc \in {"drain", "locked"}}

\* C37: the lock is held exactly while one task is inside the send of its
\* SUBSCRIBE or UNSUBSCRIBE command: never by a task that waits to put an
\* event, never after a call has returned or raised, and nobody waits for a
\* lock that is free.
C37_LockOnlyForWrite ==
    /\ locked <=> Holders # {}
    /\ Cardinality(Holders) <= 1
    /\ lockWaiters # <<>> => locked

\* A task waits on a consumer's full queue, and another task, whose call
\* started later, has acquired the lock and is writing its command.
C37_LockedWhilePutWaits ==
    \E t, u \in Tasks :
        /\ task[t].pc = "put_wait"
        /\ Full(delivered, task[t].q)
        /\ task[u].pc = "drain"
        /\ locked

\* The receive of the loop fails in this step with ConnectionClosedError:
\* the loop waits in receive on a stream that has ended with nothing left to
\* read, or on a Connection a failed send has disconnected.
RecvClosed ==
    /\ loop.pc = "recv"
    /\ loop' # loop
    /\ \/ conn = "none"
       \/ conn = "eof" /\ loopRead = Len(pushed)

\* The receive of the loop fails in this step with ParsingError.
RecvGarbled ==
    /\ loop.pc = "recv"
    /\ loopRead' = loopRead + 1
    /\ ~Parses(NewPush)

\* The loop ends the step disconnected and terminated with error e, no map
\* and no queue having changed.
Terminated(e) ==
    /\ conn' = "none"
    /\ loop'.pc = "done"
    /\ loop'.err = e
    /\ pending' = pending
    /\ subscribed' = subscribed
    /\ delivered' = delivered
    /\ putters' = putters

\* C38: when the receive of the loop fails with a connection-closed or a
\* parsing error, the loop disconnects and terminates with the Subscriber's
\* error of the same name, both maps and every queue being left as they
\* were; a loop that has terminated does nothing more.
C38_LoopFailure ==
    [][/\ RecvClosed => Terminated("ConnectionClosedError")
       /\ RecvGarbled => Terminated("ParsingError")
       /\ loop.pc = "done" => loop' = loop]_vars

\* The tasks inside the body of the Publisher's `async with self._lock`.
PubHolders == {t \in PubTasks : pubTask[t].pc \in {"locked", "drain", "recv"}}

\* Each publish call that returned, returned the Integer the server sent
\* in answer to the command that call wrote, and every reply was read by
\* the call whose command it answers, the lock being held by the one task
\* that is between its write and its read.
PubOwnReply ==
    /\ Cardinality(PubHolders) <= 1
    /\ pubLocked <=> PubHolders # {}
    /\ \A i \in 1..Len(pubLog) :
          LET e == pubLog[i]
          IN /\ e.reply # NoReply => e.reply.to = e.id
             /\ e.err = "none" => /\ e.recv = "Integer"
                                  /\ e.reply.shape = "Integer"
                                  /\ e.ret = e.reply.n

\* A reply that is no Integer makes the call raise UnexpectedResponseError
\* and leaves the Connection as it was.
PubUnexpected ==
    \A i \in 1..Len(pubLog) :
        pubLog[i].recv = "Other"
            => /\ pubLog[i].err = "UnexpectedResponseError"
               /\ pubLog[i].after = pubLog[i].was
               /\ pubLog[i].after # "none"

\* A receive that ended with TimeoutError, ParsingError or
\* ConnectionClosedError leaves the Connection disconnected.
PubDisconnects ==
    \A i \in 1..Len(pubLog) :
        pubLog[i].recv \in {"TimeoutError", "ParsingError",
                            "ConnectionClosedError"}
            => /\ pubLog[i].after = "none"
               /\ pubLog[i].err = pubLog[i].recv

\* C39: concurrent publish calls each return the Integer reply to their own
\* command, the write and the read being one step under the lock; a reply
\* that is no Integer raises UnexpectedResponseError and leaves the
\* Connection open; a timeout, a parsing error and a connection-closed error
\* on the reply disconnect the Connection and raise the Publisher's error of
\* that name.
C39_PublishReplies == PubOwnReply /\ PubUnexpected /\ PubDisconnects

====
